---- MODULE Spec2Model ----
(***************************************************************************)
(* Model of turbio/brainfuq: the CTL interpreter of src/verify.rs          *)
(* (compile: parse, fuse, resolve; exec) and the code generator of         *)
(* src/bfcc.rs (normalizer passes and emission), run through the pipeline  *)
(* of run_test: bfcc::compile -> compile -> exec.                          *)
(*                                                                         *)
(* Indices are 0-based as in the Rust code: pc, mp and jump targets count  *)
(* from 0, so op k of the stream is ops[k + 1].                            *)
(***************************************************************************)
EXTENDS Integers, Sequences, FiniteSets, TLC

VARIABLES
    module,   \* the IR module handed to bfcc::compile (<<>> when the source is given directly)
    src,      \* the CTL text: a sequence of characters
    phase,    \* "ir" | "bf" | "exec" | "ok" | "err" | "panic" | "cut"
    ops,      \* Vec<COps> returned by compile
    pc,       \* exec: program counter
    mp,       \* exec: head position
    steps,    \* exec: step counter
    mem,      \* exec: the tape, as the map of its non-zero cells
    output,   \* exec: bytes written by Putchar
    err,      \* the InterpErr returned by exec, or the panic message
    nphase,   \* reference run: "idle" | "exec" | "ok" | "err" | "cut"
    nops,     \* reference run: one op per source character, jumps resolved
    npc,      \* reference run: program counter
    nmp,      \* reference run: head position
    nmem,     \* reference run: the tape
    nout,     \* reference run: output
    nerr,     \* reference run: fault kind
    marks,    \* where the emitted text's block guards, Calls and Rets sit in ops
    hist,     \* history of the run: executed Calls and Rets, pending resumption
    prog,     \* the Op whose printed text is run, with the tape it is run on
    harness   \* main's loop over the test cases: cases left, reports, stats files

vars == <<module, src, phase, ops, pc, mp, steps, mem, output, err,
          nphase, nops, npc, nmp, nmem, nout, nerr, marks, hist, prog, harness>>

execVars == <<pc, mp, steps, mem, output>>
naiveVars == <<nphase, nops, npc, nmp, nmem, nout, nerr>>

----------------------------------------------------------------------------
(* Bounds *)

MaxLen == 4          \* longest CTL source given directly to the interpreter
MaxConst == 2        \* largest constant stored or printed by the modules compiled
MaxSteps == 2500     \* cap on exec's step counter (the loop itself is unbounded)
MaxCell == 7         \* last cell of the working region an Op is run on

(* Program constants *)

MemLen == 10000      \* mem: [u8; 10000]
CellMax == 255       \* u8

----------------------------------------------------------------------------
(* Small helpers *)

Min(S) == CHOOSE x \in S : \A y \in S : x <= y
Max(S) == CHOOSE x \in S : \A y \in S : x >= y

Rep(c, n) == [i \in 1..n |-> c]

\* the tape: a cell absent from the map holds 0
Rd(m, i) == IF i \in DOMAIN m THEN m[i] ELSE 0
Wr(m, i, v) ==
    IF v = 0
    THEN [j \in DOMAIN m \ {i} |-> m[j]]
    ELSE [j \in DOMAIN m \cup {i} |-> IF j = i THEN v ELSE m[j]]
ZeroTape == [j \in {} |-> 0]

----------------------------------------------------------------------------
(* verify.rs: enum COps *)

OpAdd(n) == [op |-> "Add", n |-> n]
OpMov(n) == [op |-> "Mov", n |-> n]
OpPutchar == [op |-> "Putchar", n |-> 0]
OpJmpIfZ(a) == [op |-> "JmpIfZ", n |-> a]
OpJmpIfNZ(a) == [op |-> "JmpIfNZ", n |-> a]

OpChars == {"+", "-", ">", "<", "[", "]", ".", ","}

(* verify.rs compile, first loop: one op per character, others dropped;  *)
(* ',' panics.                                                            *)
CharOp(c) ==
    CASE c = "+" -> OpAdd(1)
      [] c = "-" -> OpAdd(-1)
      [] c = ">" -> OpMov(1)
      [] c = "<" -> OpMov(-1)
      [] c = "[" -> OpJmpIfZ(0)
      [] c = "]" -> OpJmpIfNZ(0)
      [] c = "." -> OpPutchar

IsOpChar(c) == c \in OpChars

HasGetchar(code) == \E i \in 1..Len(code) : code[i] = ","

Parse(code) ==
    LET kept == SelectSeq(code, IsOpChar)
    IN [i \in 1..Len(kept) |-> CharOp(kept[i])]

(* verify.rs compile, "combine similar": the match on (last of into, op) *)
Fusable(a, b) ==
    \/ a.op = "Add" /\ b.op = "Add"
    \/ a.op = "Mov" /\ b.op = "Mov"

Combine(a, b) == [op |-> a.op, n |-> a.n + b.n]

\* one turn of the loop body: fold op into the stream built so far
FuseStep(into, op) ==
    IF Fusable(into[Len(into)], op)
    THEN [into EXCEPT ![Len(into)] = Combine(into[Len(into)], op)]
    ELSE Append(into, op)

\* joining two fused streams: what the loop does when it continues from
\* the stream `a` over the ops that produced `b` (only the seam can merge)
FuseJoin(a, b) ==
    IF a = <<>> THEN b
    ELSE IF b = <<>> THEN a
    ELSE FuseStep(a, b[1]) \o Tail(b)

\* the loop over opsout[lo..hi], evaluated by halving the range
RECURSIVE FuseRange(_, _, _)
FuseRange(p, lo, hi) ==
    IF lo > hi THEN <<>>
    ELSE IF lo = hi THEN <<p[lo]>>
    ELSE LET mid == (lo + hi) \div 2
         IN FuseJoin(FuseRange(p, lo, mid), FuseRange(p, mid + 1, hi))

Fuse(p) == FuseRange(p, 1, Len(p))

(* verify.rs compile, "actually resolve ops" *)
IsJz(o) == o.op = "JmpIfZ"
IsJnz(o) == o.op = "JmpIfNZ"

\* bal[k] = (number of JmpIfZ) - (number of JmpIfNZ) among the first k ops
Balance(p) ==
    LET jz == {m \in 1..Len(p) : IsJz(p[m])}
        jnz == {m \in 1..Len(p) : IsJnz(p[m])}
    IN [k \in 0..Len(p) |->
          Cardinality({m \in jz : m <= k}) - Cardinality({m \in jnz : m <= k})]

NoMatch == -1

\* MatchFwd without the depth counter reset: the last JmpIfNZ at depth 0
MatchFwdLast(p, bal, i) ==
    LET c == {j \in (i + 1)..(Len(p) - 1) :
                 /\ 1 + (bal[j + 1] - bal[i + 1]) = 0
                 /\ IsJnz(p[j + 1])}
    IN IF c = {} THEN NoMatch ELSE Max(c)

\* forward scan from the JmpIfZ at 0-based index i: d starts at 1 and the
\* first j > i with d = 0 at a JmpIfNZ is returned; none: panic
MatchFwd(p, bal, i) ==
    LET c == {j \in (i + 1)..(Len(p) - 1) :
                 /\ 1 + (bal[j + 1] - bal[i + 1]) = 0
                 /\ IsJnz(p[j + 1])}
    IN IF c = {} THEN NoMatch ELSE Min(c)

\* MatchBwd without the panic after the loop
MatchBwdNoPanic(p, bal, i) ==
    LET c == {j \in 0..(i - 1) :
                 /\ 1 + (bal[j] - bal[i]) = 0
                 /\ IsJz(p[j + 1])}
    IN IF c = {} THEN 0 ELSE Max(c)

\* backward scan from the JmpIfNZ at 0-based index i, over (0..i).rev()
MatchBwd(p, bal, i) ==
    LET c == {j \in 0..(i - 1) :
                 /\ 1 + (bal[j] - bal[i]) = 0
                 /\ IsJz(p[j + 1])}
    IN IF c = {} THEN NoMatch ELSE Max(c)

ResolveTargets(p) ==
    LET bal == Balance(p)
    IN [k \in 1..Len(p) |->
          IF IsJz(p[k]) THEN MatchFwd(p, bal, k - 1)
          ELSE IF IsJnz(p[k]) THEN MatchBwd(p, bal, k - 1)
          ELSE 0]

Unbalanced(p, tg) == \E k \in 1..Len(p) : (IsJz(p[k]) \/ IsJnz(p[k])) /\ tg[k] = NoMatch

Resolve(p, tg) ==
    [k \in 1..Len(p) |->
        IF IsJz(p[k]) \/ IsJnz(p[k]) THEN [p[k] EXCEPT !.n = tg[k]] ELSE p[k]]

(* verify.rs compile as a whole: the panic it ends with ("none" when it    *)
(* returns) and the op stream it returns                                   *)
Aborted(why) == [panic |-> why, ops |-> <<>>]

\* compile taking "," for a comment character
NotGetchar(c) == c # ","

compileSkippingGetchar(code) ==
    LET kept == SelectSeq(code, NotGetchar)
    IN IF Parse(kept) = <<>> THEN Aborted("index out of bounds")
       ELSE LET f == Fuse(Parse(kept))
                tg == ResolveTargets(f)
            IN IF Unbalanced(f, tg) THEN Aborted("unbalanced?")
               ELSE [panic |-> "none", ops |-> Resolve(f, tg)]

compile(code) ==
    IF HasGetchar(code) THEN Aborted("TODO")
    ELSE IF Parse(code) = <<>> THEN Aborted("index out of bounds")
    ELSE LET f == Fuse(Parse(code))
             tg == ResolveTargets(f)
         IN IF Unbalanced(f, tg) THEN Aborted("unbalanced?")
            ELSE [panic |-> "none", ops |-> Resolve(f, tg)]

----------------------------------------------------------------------------
(* verify.rs exec: one turn of `while pc < ops.len()` on the op o.  The    *)
(* result carries the fault in f ("none" when the turn completes).         *)

Turn(fault, p, m, t, out) == [f |-> fault, pc |-> p, mp |-> m, mem |-> t, out |-> out]

\* ExecAdd as a u8 wrapping add
ExecAddWrapping(o, p, m, t, out) ==
    Turn("none", p + 1, m, Wr(t, m, (Rd(t, m) + o.n) % (CellMax + 1)), out)

ExecAdd(o, p, m, t, out) ==
    LET v == Rd(t, m) + o.n
    IN IF v > CellMax THEN Turn("IntOverflow", p, m, t, out)
       ELSE IF v < 0 THEN Turn("IntUnderflow", p, m, t, out)
       ELSE Turn("none", p + 1, m, Wr(t, m, v), out)

ExecMov(o, p, m, t, out) ==
    LET to == m + o.n
    IN IF to >= MemLen THEN Turn("MemOverflow", p, m, t, out)
       ELSE IF to < 0 THEN Turn("MemUnderflow", p, m, t, out)
       ELSE Turn("none", p + 1, to, t, out)

ExecJmpIfZ(o, p, m, t, out) ==
    Turn("none", (IF Rd(t, m) = 0 THEN o.n ELSE p) + 1, m, t, out)

\* ExecJmpIfNZ going back to the JmpIfZ itself, which is then run again
ExecJmpIfNZToGuard(o, p, m, t, out) ==
    Turn("none", IF Rd(t, m) # 0 THEN o.n ELSE p + 1, m, t, out)

ExecJmpIfNZ(o, p, m, t, out) ==
    Turn("none", (IF Rd(t, m) # 0 THEN o.n ELSE p) + 1, m, t, out)

ExecTurn(o, p, m, t, out) ==
    CASE o.op = "Putchar" -> Turn("none", p + 1, m, t, Append(out, Rd(t, m)))
      [] o.op = "Add"     -> ExecAdd(o, p, m, t, out)
      [] o.op = "Mov"     -> ExecMov(o, p, m, t, out)
      [] o.op = "JmpIfZ"  -> ExecJmpIfZ(o, p, m, t, out)
      [] o.op = "JmpIfNZ" -> ExecJmpIfNZ(o, p, m, t, out)

\* the post-loop check looking at the first cell only
TapeZeroFirstCell(t) == Rd(t, 0) = 0

\* the post-loop check `for i in mem { assert!(i == 0) }`
TapeZero(t) == DOMAIN t = {}

----------------------------------------------------------------------------
(* bfcc.rs: the IR (llvm_ir::Module) as far as compile reads it.  A module *)
(* is a sequence of functions [name, blocks]; a block is [name, instrs,    *)
(* term]; block names and SSA names are numbers (n2usize).                 *)

Call(fn, arg) == [k |-> "Call", fn |-> fn, a |-> arg, b |-> 0, dest |-> 0]
Alloca(dest) == [k |-> "Alloca", fn |-> "", a |-> 0, b |-> 0, dest |-> dest]
StoreC(val, addr) == [k |-> "StoreC", fn |-> "", a |-> val, b |-> addr, dest |-> 0]
StoreL(name, addr) == [k |-> "StoreL", fn |-> "", a |-> name, b |-> addr, dest |-> 0]
Load(addr, dest) == [k |-> "Load", fn |-> "", a |-> addr, b |-> 0, dest |-> dest]
ICmpSLT(op0, op1, dest) == [k |-> "ICmpSLT", fn |-> "", a |-> op0, b |-> op1, dest |-> dest]
AddC(op0, op1, dest) == [k |-> "Add", fn |-> "", a |-> op0, b |-> op1, dest |-> dest]

\* an instruction on a given type (the others are on i8)
Typed(i, ty, bits) ==
    [k |-> i.k, fn |-> i.fn, a |-> i.a, b |-> i.b, dest |-> i.dest, ty |-> ty, bits |-> bits]
TyOf(i) == IF "ty" \in DOMAIN i THEN i.ty ELSE "int"
Bits(i) == IF "bits" \in DOMAIN i THEN i.bits ELSE 8
\* an instruction kind the match of compile has no arm for
Mul(op0, op1, dest) == [k |-> "Mul", fn |-> "", a |-> op0, b |-> op1, dest |-> dest]

Br(dest) == [k |-> "Br", dest |-> dest, cond |-> 0, fdest |-> 0]
CondBr(cond, t, f) == [k |-> "CondBr", dest |-> t, cond |-> cond, fdest |-> f]
Ret == [k |-> "Ret", dest |-> 0, cond |-> 0, fdest |-> 0]

BasicBlock(name, instrs, term) == [name |-> name, instrs |-> instrs, term |-> term]
Function(name, blocks) == [name |-> name, blocks |-> blocks]

IsCall(i) == i.k = "Call"

InsertAt(s, i, e) == SubSeq(s, 1, i - 1) \o <<e>> \o SubSeq(s, i, Len(s))

\* one past the largest block name of the function
NextName(bs) == Max({bs[j].name : j \in 1..Len(bs)}) + 1

(* calls_terminate_blocks that splits only after a Call that is not the    *)
(* block's last instruction                                                *)
RECURSIVE SplitInnerCalls(_, _, _)
SplitInnerCalls(bs, block, instr) ==
    IF block >= Len(bs) THEN bs
    ELSE IF instr >= Len(bs[block + 1].instrs) THEN SplitInnerCalls(bs, block + 1, 0)
    ELSE IF ~IsCall(bs[block + 1].instrs[instr + 1]) \/ instr = Len(bs[block + 1].instrs) - 1
         THEN SplitInnerCalls(bs, block, instr + 1)
    ELSE
        LET old == bs[block + 1]
            nextn == NextName(bs)
            splitn == BasicBlock(nextn, SubSeq(old.instrs, instr + 2, Len(old.instrs)), old.term)
            kept == BasicBlock(old.name, SubSeq(old.instrs, 1, instr + 1), Br(nextn))
        IN SplitInnerCalls(InsertAt([bs EXCEPT ![block + 1] = kept], block + 2, splitn),
                           block, instr + 1)

(* calls_terminate_blocks pushing each new block at the end of the block   *)
(* list instead of inserting it after the block it is split from           *)
RECURSIVE SplitCallsAppending(_, _, _)
SplitCallsAppending(bs, block, instr) ==
    IF block >= Len(bs) THEN bs
    ELSE IF instr >= Len(bs[block + 1].instrs) THEN SplitCallsAppending(bs, block + 1, 0)
    ELSE IF ~IsCall(bs[block + 1].instrs[instr + 1]) THEN SplitCallsAppending(bs, block, instr + 1)
    ELSE
        LET old == bs[block + 1]
            nextn == NextName(bs)
            splitn ==
                IF instr = Len(old.instrs) - 1
                THEN BasicBlock(nextn, <<>>, old.term)
                ELSE BasicBlock(nextn, SubSeq(old.instrs, instr + 2, Len(old.instrs)), old.term)
            kept == BasicBlock(old.name, SubSeq(old.instrs, 1, instr + 1), Br(nextn))
        IN SplitCallsAppending(Append([bs EXCEPT ![block + 1] = kept], splitn),
                               block, instr + 1)

(* bfcc.rs calls_terminate_blocks, for one function: the two nested while  *)
(* loops over (block, instr), both 0-based.                                 *)
RECURSIVE SplitCalls(_, _, _)
SplitCalls(bs, block, instr) ==
    IF block >= Len(bs) THEN bs
    ELSE IF instr >= Len(bs[block + 1].instrs) THEN SplitCalls(bs, block + 1, 0)
    ELSE IF ~IsCall(bs[block + 1].instrs[instr + 1]) THEN SplitCalls(bs, block, instr + 1)
    ELSE
        LET old == bs[block + 1]
            nextn == NextName(bs)
            splitn ==
                IF instr = Len(old.instrs) - 1
                THEN BasicBlock(nextn, <<>>, old.term)
                ELSE BasicBlock(nextn, SubSeq(old.instrs, instr + 2, Len(old.instrs)), old.term)
            kept == BasicBlock(old.name, SubSeq(old.instrs, 1, instr + 1), Br(nextn))
        IN SplitCalls(InsertAt([bs EXCEPT ![block + 1] = kept], block + 2, splitn),
                      block, instr + 1)

calls_terminate_blocks(m) ==
    [f \in 1..Len(m) |-> Function(m[f].name, SplitCalls(m[f].blocks, 0, 0))]

(* bfcc.rs calls_never_in_first_block *)
HasCall(b) == \E i \in 1..Len(b.instrs) : IsCall(b.instrs[i])

\* the new entry block pushed at the end of the block list
AppendEntry(bs) ==
    IF ~HasCall(bs[1]) THEN bs
    ELSE bs \o <<BasicBlock(NextName(bs), <<>>, Br(bs[1].name))>>

PrependEntry(bs) ==
    IF ~HasCall(bs[1]) THEN bs
    ELSE <<BasicBlock(NextName(bs), <<>>, Br(bs[1].name))>> \o bs

calls_never_in_first_block(m) ==
    [f \in 1..Len(m) |-> Function(m[f].name, PrependEntry(m[f].blocks))]

Normalize(m) == calls_never_in_first_block(calls_terminate_blocks(m))

----------------------------------------------------------------------------
(* bfcc.rs compile: layout tables and motion helpers *)

FrameWidth == 16     \* ">".repeat(16) / "<".repeat(16)
scratch == 10        \* let scratch = 10

\* func2id: function name -> index (0-based); -1 when the name is unknown
FuncId(m, name) ==
    IF \E f \in 1..Len(m) : m[f].name = name
    THEN (CHOOSE f \in 1..Len(m) : m[f].name = name) - 1
    ELSE -1

\* func2id[..].blks: block name -> block index (0-based) within function fid
BlockIdx(m, fid, name) ==
    LET bs == m[fid + 1].blocks
    IN IF \E b \in 1..Len(bs) : bs[b].name = name
       THEN Max({b \in 1..Len(bs) : bs[b].name = name}) - 1
       ELSE -1

Cmt == "#"           \* stands for the comment text written next to the code

gotoreg(reg, funcns, blockns, body) ==
    Rep(">", 1 + funcns + blockns + reg) \o body \o Rep("<", 1 + funcns + blockns + reg)

\* callers pass (funcns, block index) for (bid, funcns)
gotoblock(bid, funcns, body) ==
    Rep(">", 1 + bid + funcns) \o body \o Rep("<", 1 + bid + funcns)

gotofunc(fid, body) ==
    Rep(">", 1 + fid) \o body \o Rep("<", 1 + fid)

----------------------------------------------------------------------------
(* bfcc.rs compile: lowering of one instruction of block bid (0-based) of  *)
(* function fid (0-based) of the normalized module m.                      *)

\* Call whose putchar intrinsic does not clear the scratch cell
EmitCallNoClear(m, fid, bid, c) ==
    LET funcns == Len(m)
        blk == m[fid + 1].blocks[bid + 1]
        blockns == Len(m[fid + 1].blocks)
        brto == BlockIdx(m, fid, blk.term.dest)
    IN gotoblock(funcns, brto, <<Cmt, "+">>)
       \o (IF c.fn = "putchar"
           THEN <<Cmt>> \o gotoreg(scratch + 0, funcns, blockns,
                                   Rep("+", c.a) \o <<".">>)
           ELSE Rep(">", FrameWidth) \o <<Cmt, "+", Cmt>>
                \o gotofunc(FuncId(m, c.fn), <<"+", Cmt>>)
                \o gotoblock(funcns, 0, <<"+", Cmt>>))

\* Call: arm the post-call block, then putchar intrinsic or a new frame
EmitCall(m, fid, bid, c) ==
    LET funcns == Len(m)
        blk == m[fid + 1].blocks[bid + 1]
        blockns == Len(m[fid + 1].blocks)
        brto == BlockIdx(m, fid, blk.term.dest)
    IN gotoblock(funcns, brto, <<Cmt, "+">>)
       \o (IF c.fn = "putchar"
           THEN <<Cmt>> \o gotoreg(scratch + 0, funcns, blockns,
                                   Rep("+", c.a) \o <<".", "[", "-", "]">>)
           ELSE Rep(">", FrameWidth) \o <<Cmt, "+", Cmt>>
                \o gotofunc(FuncId(m, c.fn), <<"+", Cmt>>)
                \o gotoblock(funcns, 0, <<"+", Cmt>>))

EmitAlloca(funcns, blockns, c) == gotoreg(c.dest, funcns, blockns, <<Cmt>>)

EmitStoreL(funcns, blockns, s) ==
    LET name == s.a
        addr == s.b
    IN gotoreg(addr, funcns, blockns, <<"[", "-", "]">>)
       \o gotoreg(name, funcns, blockns, <<"[", "-">>)
       \o gotoreg(addr, funcns, blockns, <<"+">>)
       \o gotoreg(name, funcns, blockns, <<"]">>)

EmitStoreC(funcns, blockns, s) ==
    gotoreg(s.b, funcns, blockns, <<"[", "-", "]">> \o Rep("+", s.a))

EmitLoad(funcns, blockns, l) ==
    LET addr == l.a
        dest == l.dest
        temp0 == scratch + 0
    IN gotoreg(dest, funcns, blockns, <<Cmt>>)
       \o gotoreg(temp0, funcns, blockns, <<Cmt>>)
       \o gotoreg(addr, funcns, blockns, <<"[", "-">>)
       \o gotoreg(dest, funcns, blockns, <<"+">>)
       \o gotoreg(temp0, funcns, blockns, <<"+">>)
       \o gotoreg(addr, funcns, blockns, <<"]">>)
       \o gotoreg(temp0, funcns, blockns, <<"[", "-">>)
       \o gotoreg(addr, funcns, blockns, <<"+">>)
       \o gotoreg(temp0, funcns, blockns, <<"]">>)

\* ICmp that leaves its working cells as the comparison left them
EmitICmpNoClear(funcns, blockns, i) ==
    LET op0 == i.a
        dest == i.dest
        temp0 == scratch + 1
        temp1 == scratch + 2
        op1 == scratch + 0
        R(reg, body) == gotoreg(reg, funcns, blockns, body)
    IN R(op0, <<Cmt>>) \o R(scratch + 0, <<Cmt>>)
       \o R(temp0, <<Cmt>>) \o R(temp1, <<Cmt>>)
       \o R(temp1 + 1, <<Cmt>>) \o R(temp1 + 2, <<Cmt>>)
       \o R(dest, <<Cmt>>)
       \* op0 -> scratch+0 and dest, then back from scratch+0
       \o R(op0, <<"[">>) \o R(scratch + 0, <<"+">>) \o R(dest, <<"+">>) \o R(op0, <<"-", "]">>)
       \o R(scratch + 0, <<"[">>) \o R(op0, <<"+">>) \o R(scratch + 0, <<"-", "]">>)
       \* the constant
       \o R(scratch + 0, Rep("+", i.b))
       \* "temp1 >+ > <<"
       \o R(temp1, <<Cmt, ">", "+", ">", "<", "<">>)
       \* y[temp0+ temp1+ y-]
       \o R(op1, <<Cmt, "[">>) \o R(temp0, <<"+">>) \o R(temp1, <<"+">>) \o R(op1, <<"-", "]">>)
       \* temp0[y+ temp0-]
       \o R(temp0, <<Cmt, "[">>) \o R(op1, <<Cmt, "+">>) \o R(temp0, <<Cmt, "-", "]">>)
       \* x[temp0+ x-]+
       \o R(dest, <<"[">>) \o R(temp0, <<Cmt, "+">>) \o R(dest, <<Cmt, "-", "]", "+">>)
       \* temp1[>-]> [< x- temp0[-] temp1>->]<+<
       \o R(temp1, <<"[", ">", "-", "]", ">", "[", "<">>)
       \o R(dest, <<"-">>)
       \o R(temp0, <<"[", "-", "]">>)
       \o R(temp1, <<">", "-", ">", "]", "<", "+", "<">>)
       \* temp0[temp1- [>-]> [< x- temp0[-]+ temp1>->]<+< temp0-]
       \o R(temp0, <<"[">>)
       \o R(temp1, <<"-", "[", ">", "-", "]", ">", "[", "<">>)
       \o R(dest, <<"-">>)
       \o R(temp0, <<"[", "-", "]", "+">>)
       \o R(temp1, <<">", "-", ">", "]", "<", "+", "<">>)
       \o R(temp0, <<"-", "]">>)

EmitICmp(funcns, blockns, i) ==
    LET op0 == i.a
        dest == i.dest
        temp0 == scratch + 1
        temp1 == scratch + 2
        op1 == scratch + 0
        R(reg, body) == gotoreg(reg, funcns, blockns, body)
    IN R(op0, <<Cmt>>) \o R(scratch + 0, <<Cmt>>)
       \o R(temp0, <<Cmt>>) \o R(temp1, <<Cmt>>)
       \o R(temp1 + 1, <<Cmt>>) \o R(temp1 + 2, <<Cmt>>)
       \o R(dest, <<Cmt>>)
       \* op0 -> scratch+0 and dest, then back from scratch+0
       \o R(op0, <<"[">>) \o R(scratch + 0, <<"+">>) \o R(dest, <<"+">>) \o R(op0, <<"-", "]">>)
       \o R(scratch + 0, <<"[">>) \o R(op0, <<"+">>) \o R(scratch + 0, <<"-", "]">>)
       \* the constant
       \o R(scratch + 0, Rep("+", i.b))
       \* "temp1 >+ > <<"
       \o R(temp1, <<Cmt, ">", "+", ">", "<", "<">>)
       \* y[temp0+ temp1+ y-]
       \o R(op1, <<Cmt, "[">>) \o R(temp0, <<"+">>) \o R(temp1, <<"+">>) \o R(op1, <<"-", "]">>)
       \* temp0[y+ temp0-]
       \o R(temp0, <<Cmt, "[">>) \o R(op1, <<Cmt, "+">>) \o R(temp0, <<Cmt, "-", "]">>)
       \* x[temp0+ x-]+
       \o R(dest, <<"[">>) \o R(temp0, <<Cmt, "+">>) \o R(dest, <<Cmt, "-", "]", "+">>)
       \* temp1[>-]> [< x- temp0[-] temp1>->]<+<
       \o R(temp1, <<"[", ">", "-", "]", ">", "[", "<">>)
       \o R(dest, <<"-">>)
       \o R(temp0, <<"[", "-", "]">>)
       \o R(temp1, <<">", "-", ">", "]", "<", "+", "<">>)
       \* temp0[temp1- [>-]> [< x- temp0[-]+ temp1>->]<+< temp0-]
       \o R(temp0, <<"[">>)
       \o R(temp1, <<"-", "[", ">", "-", "]", ">", "[", "<">>)
       \o R(dest, <<"-">>)
       \o R(temp0, <<"[", "-", "]", "+">>)
       \o R(temp1, <<">", "-", ">", "]", "<", "+", "<">>)
       \o R(temp0, <<"-", "]">>)
       \* clear the working cells
       \o R(op1, <<"[", "-", "]">>) \o R(temp0, <<"[", "-", "]">>)
       \o R(temp1, <<"[", "-", "]">>) \o R(temp1 + 1, <<"[", "-", "]">>)
       \o R(temp1 + 2, <<"[", "-", "]">>)

\* Add that leaves the constant in the scratch cell
EmitAddNoConst(funcns, blockns, a) ==
    LET op0 == a.a
        dest == a.dest
        op1 == scratch + 0
    IN gotoreg(dest, funcns, blockns, <<Cmt>>)
       \o gotoreg(scratch + 0, funcns, blockns, Rep("+", a.b))
       \o gotoreg(op0, funcns, blockns, <<"[", "-">>)
       \o gotoreg(dest, funcns, blockns, <<"+">>)
       \o gotoreg(op0, funcns, blockns, <<"]">>)

EmitAdd(funcns, blockns, a) ==
    LET op0 == a.a
        dest == a.dest
        op1 == scratch + 0
    IN gotoreg(dest, funcns, blockns, <<Cmt>>)
       \o gotoreg(scratch + 0, funcns, blockns, Rep("+", a.b))
       \o gotoreg(op0, funcns, blockns, <<"[", "-">>)
       \o gotoreg(dest, funcns, blockns, <<"+">>)
       \o gotoreg(op0, funcns, blockns, <<"]">>)
       \o gotoreg(op1, funcns, blockns, <<"[", "-">>)
       \o gotoreg(dest, funcns, blockns, <<"+">>)
       \o gotoreg(op1, funcns, blockns, <<"]">>)

EmitInstr(m, fid, bid, instr) ==
    LET funcns == Len(m)
        blockns == Len(m[fid + 1].blocks)
    IN <<Cmt>> \o
       (CASE instr.k = "Call"    -> EmitCall(m, fid, bid, instr)
          [] instr.k = "Alloca"  -> EmitAlloca(funcns, blockns, instr)
          [] instr.k = "StoreL"  -> EmitStoreL(funcns, blockns, instr)
          [] instr.k = "StoreC"  -> EmitStoreC(funcns, blockns, instr)
          [] instr.k = "Load"    -> EmitLoad(funcns, blockns, instr)
          [] instr.k = "ICmpSLT" -> EmitICmp(funcns, blockns, instr)
          [] instr.k = "Add"     -> EmitAdd(funcns, blockns, instr))

(* bfcc.rs compile: the terminator, emitted when the block made no call *)
EmitBr(m, fid, br) ==
    gotoblock(Len(m), BlockIdx(m, fid, br.dest), <<"+", Cmt>>)

\* CondBr whose true arm leaves the scratch flag set
EmitCondBrBothArms(m, fid, cbr) ==
    LET funcns == Len(m)
        blockns == Len(m[fid + 1].blocks)
        cond == cbr.cond
        tru == BlockIdx(m, fid, cbr.dest)
        fals == BlockIdx(m, fid, cbr.fdest)
        temp0 == scratch + 0
    IN gotoreg(temp0, funcns, blockns, <<"+">>)
       \o gotoreg(cond, funcns, blockns, <<"[", "-">>)
       \o gotoblock(funcns, tru, <<"+", Cmt>>)
       \o gotoreg(cond, funcns, blockns, <<"]">>)
       \o gotoreg(temp0, funcns, blockns, <<"[", "-">>)
       \o gotoblock(funcns, fals, <<"+", Cmt>>)
       \o gotoreg(temp0, funcns, blockns, <<"]">>)

EmitCondBr(m, fid, cbr) ==
    LET funcns == Len(m)
        blockns == Len(m[fid + 1].blocks)
        cond == cbr.cond
        tru == BlockIdx(m, fid, cbr.dest)
        fals == BlockIdx(m, fid, cbr.fdest)
        temp0 == scratch + 0
    IN gotoreg(temp0, funcns, blockns, <<"+">>)
       \o gotoreg(cond, funcns, blockns, <<"[", "-">>)
       \o gotoreg(temp0, funcns, blockns, <<"-">>)
       \o gotoblock(funcns, tru, <<"+", Cmt>>)
       \o gotoreg(cond, funcns, blockns, <<"]">>)
       \o gotoreg(temp0, funcns, blockns, <<"[", "-">>)
       \o gotoblock(funcns, fals, <<"+", Cmt>>)
       \o gotoreg(temp0, funcns, blockns, <<"]">>)

\* Ret without the retreat
EmitRetNoRetreat(fid) ==
    <<"-", Cmt>> \o gotofunc(fid, <<"-", Cmt>>) \o <<Cmt>>

\* the text of Ret up to and including the retreat "<" * 16
EmitRet(fid) ==
    <<"-", Cmt>> \o gotofunc(fid, <<"-", Cmt>>) \o Rep("<", FrameWidth) \o <<Cmt>>

EmitTerm(m, fid, term) ==
    <<Cmt>> \o
    (CASE term.k = "Br"     -> EmitBr(m, fid, term)
       [] term.k = "CondBr" -> EmitCondBr(m, fid, term)
       [] term.k = "Ret"    -> EmitRet(fid))

RECURSIVE EmitInstrs(_, _, _, _)
EmitInstrs(m, fid, bid, iid) ==
    LET instrs == m[fid + 1].blocks[bid + 1].instrs
    IN IF iid >= Len(instrs) THEN <<>>
       ELSE EmitInstr(m, fid, bid, instrs[iid + 1]) \o EmitInstrs(m, fid, bid, iid + 1)

\* "t#f/b [-": the guard of block bid, up to and including its "["
BlockOpen(m, bid) == Rep(">", 1 + Len(m) + bid) \o <<Cmt, "[">>

EmitBlock(m, fid, bid) ==
    LET blk == m[fid + 1].blocks[bid + 1]
        handle_call == HasCall(blk)
    IN gotoblock(Len(m), bid, <<Cmt, "[", "-">>)
       \o EmitInstrs(m, fid, bid, 0)
       \o (IF ~handle_call THEN EmitTerm(m, fid, blk.term) ELSE <<>>)
       \o gotoblock(Len(m), bid, <<"]", Cmt>>)

RECURSIVE EmitBlocks(_, _, _)
EmitBlocks(m, fid, bid) ==
    IF bid >= Len(m[fid + 1].blocks) THEN <<>>
    ELSE EmitBlock(m, fid, bid) \o EmitBlocks(m, fid, bid + 1)

FuncOpen(fid) == gotofunc(fid, <<Cmt, "[">>)

EmitFunc(m, fid) ==
    FuncOpen(fid) \o EmitBlocks(m, fid, 0) \o gotofunc(fid, <<"]", Cmt>>)

RECURSIVE EmitFuncs(_, _)
EmitFuncs(m, fid) ==
    IF fid >= Len(m) THEN <<>>
    ELSE EmitFunc(m, fid) \o EmitFuncs(m, fid + 1)

\* first frame, runtime init, and the "[" of the outer loop
EmitInit(m) ==
    Rep(">", FrameWidth) \o <<Cmt, "+", Cmt>>
    \o gotofunc(FuncId(m, "main"), <<"+", Cmt>>)
    \o gotoblock(Len(m), 0, <<"+", Cmt>>)
    \o <<"[">>

Emit(m) == EmitInit(m) \o EmitFuncs(m, 0) \o <<"]">>

(* the aborts of bfcc::compile, without the lookup of the callee in       *)
(* func2id                                                                 *)
InstrAbortsNoLookup(m, fid, bid, iid) ==
    LET blk == m[fid + 1].blocks[bid + 1]
        instr == blk.instrs[iid + 1]
    IN \/ instr.k \notin {"Call", "Alloca", "StoreL", "StoreC", "Load", "ICmpSLT", "Add"}
       \/ instr.k = "Alloca" /\ TyOf(instr) # "int"
       \/ /\ instr.k = "Call"
          /\ \/ blk.term.k # "Br"
             \/ Len(blk.instrs) - 1 # iid
             \/ BlockIdx(m, fid, blk.term.dest) = -1

(* the aborts of bfcc::compile on the normalized module m *)
InstrAborts(m, fid, bid, iid) ==
    LET blk == m[fid + 1].blocks[bid + 1]
        instr == blk.instrs[iid + 1]
    IN \/ instr.k \notin {"Call", "Alloca", "StoreL", "StoreC", "Load", "ICmpSLT", "Add"}
       \/ instr.k = "Alloca" /\ TyOf(instr) # "int"
       \/ /\ instr.k = "Call"
          /\ \/ blk.term.k # "Br"
             \/ Len(blk.instrs) - 1 # iid
             \/ BlockIdx(m, fid, blk.term.dest) = -1
             \/ instr.fn # "putchar" /\ FuncId(m, instr.fn) = -1

TermAborts(m, fid, bid) ==
    LET blk == m[fid + 1].blocks[bid + 1]
    IN /\ ~HasCall(blk)
       /\ \/ blk.term.k \notin {"Br", "CondBr", "Ret"}
          \/ blk.term.k \in {"Br", "CondBr"} /\ BlockIdx(m, fid, blk.term.dest) = -1
          \/ blk.term.k = "CondBr" /\ BlockIdx(m, fid, blk.term.fdest) = -1

BfccAborts(m) ==
    \/ FuncId(m, "main") = -1
    \/ \E fid \in 0..(Len(m) - 1) : \E bid \in 0..(Len(m[fid + 1].blocks) - 1) :
          \/ TermAborts(m, fid, bid)
          \/ \E iid \in 0..(Len(m[fid + 1].blocks[bid + 1].instrs) - 1) :
                InstrAborts(m, fid, bid, iid)

----------------------------------------------------------------------------
(* Where the pieces of the emitted text sit in the op stream.  The text    *)
(* emitted before a piece is compiled on its own; the number of ops it     *)
(* yields is the 0-based index of the op that follows it.                   *)

RECURSIVE Flatten(_)
Flatten(ss) == IF ss = <<>> THEN <<>> ELSE Head(ss) \o Flatten(Tail(ss))

OpsIn(text) == Len(Fuse(Parse(text)))

\* the text emitted before block bid of function fid
TextBefore(m, fid, bid) ==
    EmitInit(m)
    \o Flatten([f \in 1..fid |-> EmitFunc(m, f - 1)])
    \o FuncOpen(fid)
    \o Flatten([b \in 1..bid |-> EmitBlock(m, fid, b - 1)])

\* index of the "[" of the block's guard; the body starts at the "-" after it
GuardOp(m, fid, bid) == OpsIn(TextBefore(m, fid, bid) \o BlockOpen(m, bid)) - 1
BodyOp(m, fid, bid) == GuardOp(m, fid, bid) + 1

\* index of the "+" that sets the new frame's entry flag in a Call
CallOp(m, fid, bid) ==
    LET blk == m[fid + 1].blocks[bid + 1]
        t == EmitBlock(m, fid, bid)
        cut == Len(gotofunc(FuncId(m, blk.instrs[Len(blk.instrs)].fn), <<"+", Cmt>>))
               + Len(gotoblock(Len(m), 0, <<"+", Cmt>>))
               + Len(gotoblock(Len(m), bid, <<"]", Cmt>>))
               + 3
    IN OpsIn(TextBefore(m, fid, bid) \o SubSeq(t, 1, Len(t) - cut))

\* index of the "+" that arms block mask 0 of the new frame, the last op
\* of a Call's own text
EnterOp(m, fid, bid) ==
    LET t == EmitBlock(m, fid, bid)
        cut == Len(gotoblock(Len(m), bid, <<"]", Cmt>>)) + (1 + Len(m)) + 2
    IN OpsIn(TextBefore(m, fid, bid) \o SubSeq(t, 1, Len(t) - cut))

\* index of the "-" that clears the entry flag in a Ret
RetOp(m, fid, bid) ==
    LET t == EmitBlock(m, fid, bid)
        cut == Len(EmitRet(fid)) + Len(gotoblock(Len(m), bid, <<"]", Cmt>>))
    IN OpsIn(TextBefore(m, fid, bid) \o SubSeq(t, 1, Len(t) - cut))

BlocksOf(m) == {<<fid, bid>> \in (0..(Len(m) - 1)) \X (0..8) : bid < Len(m[fid + 1].blocks)}

MakesCall(m, fid, bid) ==
    LET blk == m[fid + 1].blocks[bid + 1]
    IN HasCall(blk) /\ blk.instrs[Len(blk.instrs)].fn # "putchar"

Returns(m, fid, bid) ==
    LET blk == m[fid + 1].blocks[bid + 1]
    IN ~HasCall(blk) /\ blk.term.k = "Ret"

NoMarks == [body |-> {}, call |-> {}, enter |-> {}, ret |-> {}, outer |-> -1, close |-> -1]

Marks(m) ==
    [body  |-> {<<BodyOp(m, e[1], e[2]), e[1], e[2]>> : e \in BlocksOf(m)},
     call  |-> {<<CallOp(m, e[1], e[2]), e[1], e[2]>> :
                    e \in {x \in BlocksOf(m) : MakesCall(m, x[1], x[2])}},
     enter |-> {<<EnterOp(m, e[1], e[2]), e[1], e[2]>> :
                    e \in {x \in BlocksOf(m) : MakesCall(m, x[1], x[2])}},
     ret   |-> {<<RetOp(m, e[1], e[2]), e[1], e[2]>> :
                    e \in {x \in BlocksOf(m) : Returns(m, x[1], x[2])}},
     outer |-> OpsIn(EmitInit(m)) - 1,
     close |-> OpsIn(Emit(m)) - 1]

At(set, p) == {e \in set : e[1] = p}

\* the block that a Call made in block bid of function fid resumes in
PostCall(m, fid, bid) == BlockIdx(m, fid, m[fid + 1].blocks[bid + 1].term.dest)

None == [fn |-> -1, blk |-> -1, base |-> -1]
NoHist == [calls |-> 0, rets |-> 0, stack |-> <<>>, expect |-> None, entry |-> None, frame |-> -1,
           ran |-> {}]

\* the history after the op at index p executes with the head at m0
Record(h, mk, m, p, m0) ==
    IF At(mk.call, p) # {} THEN
        LET e == CHOOSE x \in At(mk.call, p) : TRUE
        IN [h EXCEPT !.calls = @ + 1,
                     !.stack = <<[fn |-> e[2], blk |-> e[3], base |-> m0 - FrameWidth]>> \o @]
    ELSE IF At(mk.ret, p) # {} THEN
        [h EXCEPT !.rets = @ + 1,
                  !.stack = IF @ = <<>> THEN @ ELSE Tail(@),
                  !.expect = IF h.stack = <<>> THEN None
                             ELSE [fn |-> h.stack[1].fn,
                                   blk |-> PostCall(m, h.stack[1].fn, h.stack[1].blk),
                                   base |-> h.stack[1].base]]
    ELSE IF At(mk.enter, p) # {} THEN
        LET e == CHOOSE x \in At(mk.enter, p) : TRUE
            blk == m[e[2] + 1].blocks[e[3] + 1]
        IN [h EXCEPT !.entry = [fn |-> FuncId(m, blk.instrs[Len(blk.instrs)].fn), blk |-> 0,
                                base |-> m0 - (1 + Len(m))]]
    ELSE IF At(mk.body, p) # {} THEN
        LET e == CHOOSE x \in At(mk.body, p) : TRUE
        IN [h EXCEPT !.expect = None, !.entry = None,
                     !.frame = m0 - (1 + Len(m) + e[3]),
                     !.ran = @ \cup {e[2]}]
    ELSE IF p \in {mk.outer, mk.close} THEN
        \* the "[" or "]" of the outer loop: an iteration of it begins
        [h EXCEPT !.ran = {}]
    ELSE h

----------------------------------------------------------------------------
(* bfcc.rs enum Op and Op::print: the train-station idioms.  An Op is a    *)
(* record; the comment words of the format strings are Cmt.                *)

Op_Load(s, dest)  == [k |-> "Load", a |-> s, b |-> dest]
Op_Store(s, dest) == [k |-> "Store", a |-> s, b |-> dest]
Op_StoreImm(v, dest) == [k |-> "StoreImm", a |-> v, b |-> dest]
Op_Move(s, dest)  == [k |-> "Move", a |-> s, b |-> dest]
Op_Not(s, dest)   == [k |-> "Not", a |-> s, b |-> dest]
Op_BitCast(s, dest) == [k |-> "BitCast", a |-> s, b |-> dest]

print_tape_move(from, to) ==
    IF from > to THEN Rep("<", from - to) ELSE Rep(">", to - from)

PrintStoreImm(v, dest) ==
    print_tape_move(0, dest) \o <<"[", "-", "]">> \o Rep("+", v) \o print_tape_move(dest, 0)

PrintMove2(s, dest1, dest2) ==
    print_tape_move(0, dest1) \o <<"[", "-", "]">>
    \o print_tape_move(dest1, dest2) \o <<"[", "-", "]">>
    \o print_tape_move(dest2, s) \o <<"[", "-">>
    \o print_tape_move(s, dest1) \o <<"+">>
    \o print_tape_move(dest1, dest2) \o <<"+">>
    \o print_tape_move(dest2, s) \o <<"]">>
    \o print_tape_move(s, 0)

\* Move that adds its source twice
PrintMoveDoubling(s, dest) ==
    print_tape_move(0, dest) \o <<"[", "-", "]">>
    \o print_tape_move(dest, s) \o <<"[", "-">>
    \o print_tape_move(s, dest) \o <<"+", "+">>
    \o print_tape_move(dest, s) \o <<"]">>
    \o print_tape_move(s, 0)

\* Move that does not clear its destination first
PrintMoveAdding(s, dest) ==
    print_tape_move(0, dest)
    \o print_tape_move(dest, s) \o <<"[", "-">>
    \o print_tape_move(s, dest) \o <<"+">>
    \o print_tape_move(dest, s) \o <<"]">>
    \o print_tape_move(s, 0)

PrintMove(s, dest) ==
    print_tape_move(0, dest) \o <<"[", "-", "]">>
    \o print_tape_move(dest, s) \o <<"[", "-">>
    \o print_tape_move(s, dest) \o <<"+">>
    \o print_tape_move(dest, s) \o <<"]">>
    \o print_tape_move(s, 0)

PrintSubImm(v, dest) ==
    print_tape_move(0, dest) \o Rep("-", v) \o print_tape_move(dest, 0)

PrintNot(s, dest) ==
    print_tape_move(0, dest) \o <<"+">>
    \o print_tape_move(dest, s) \o <<"[">>
    \o print_tape_move(s, dest) \o <<"-">>
    \o print_tape_move(dest, s) \o <<"[", "-", "]", "]">>
    \o print_tape_move(s, 0)

\* BitCast that answers the negation: its destination starts at 1 and is
\* decremented when the source is not zero
PrintBitCastInverted(s, dest) ==
    print_tape_move(0, dest) \o <<"[", "-", "]", "+">>
    \o print_tape_move(dest, s) \o <<"[">>
    \o print_tape_move(s, dest) \o <<"-">>
    \o print_tape_move(dest, s) \o <<"[", "-", "]", "]">>
    \o print_tape_move(s, 0)

PrintBitCast(s, dest) ==
    print_tape_move(0, dest) \o <<"[", "-", "]">>
    \o print_tape_move(dest, s) \o <<"[">>
    \o print_tape_move(s, dest) \o <<"+">>
    \o print_tape_move(dest, s) \o <<"[", "-", "]", "]">>
    \o print_tape_move(s, 0)

\* Load whose drive left does not put the shifted cell back
PrintLoadNoRestore(s, dest) ==
    <<Cmt>> \o PrintMove2(s, 1, 2) \o <<Cmt>> \o PrintMove(1, s)
    \o <<Cmt>> \o PrintSubImm(3, 2)
    \o <<Cmt, ">", ">", "[", "-", "<", "+", "<">>
    \o <<Cmt>> \o PrintMove(3, 0)
    \o <<Cmt>> \o PrintMove(2, 3)
    \o <<Cmt>> \o PrintMove(1, 2)
    \o <<Cmt, ">">>
    \o <<">", ">", "]", "<", "<">>
    \o <<Cmt>> \o PrintMove2(3, 0, 2) \o <<Cmt>> \o PrintMove(0, 3)
    \o <<">", "[", "-", "<">>
    \o <<Cmt>> \o PrintMove(1, 0)
    \o <<Cmt>> \o PrintMove(2, 1)
    \o <<Cmt, "<">>
    \o <<">", "]", "<">>
    \o <<Cmt>> \o PrintMove(2, dest)

PrintLoad(s, dest) ==
    <<Cmt>> \o PrintMove2(s, 1, 2) \o <<Cmt>> \o PrintMove(1, s)
    \o <<Cmt>> \o PrintSubImm(3, 2)
    \o <<Cmt, ">", ">", "[", "-", "<", "+", "<">>
    \o <<Cmt>> \o PrintMove(3, 0)
    \o <<Cmt>> \o PrintMove(2, 3)
    \o <<Cmt>> \o PrintMove(1, 2)
    \o <<Cmt, ">">>
    \o <<">", ">", "]", "<", "<">>
    \o <<Cmt>> \o PrintMove2(3, 0, 2) \o <<Cmt>> \o PrintMove(0, 3)
    \o <<">", "[", "-", "<">>
    \o <<Cmt>> \o PrintMove(1, 0)
    \o <<Cmt>> \o PrintMove(2, 1)
    \o <<Cmt, "<">>
    \o <<Cmt>> \o PrintMove(0, 3)
    \o <<">", "]", "<">>
    \o <<Cmt>> \o PrintMove(2, dest)

\* Store that starts its pointer copy at cell 3 instead of cell 4
PrintStoreFromThree(s, dest) ==
    <<Cmt>> \o PrintMove2(dest, 2, 3) \o <<Cmt>> \o PrintMove(2, dest)
    \o <<Cmt>> \o PrintSubImm(3, 3)
    \o <<Cmt>> \o PrintMove(s, 1)
    \o <<Cmt, ">", ">", ">", "[", "-", "<", "+", "<", "<">>
    \o <<Cmt>> \o PrintMove(4, 0)
    \o <<Cmt>> \o PrintMove(3, 4)
    \o <<Cmt>> \o PrintMove(2, 3)
    \o <<Cmt>> \o PrintMove(1, 2)
    \o <<Cmt, ">">>
    \o <<">", ">", ">", "]", "<", "<", "<">>
    \o <<Cmt>> \o PrintMove(1, 4)
    \o <<">", ">", "[", "-", "<", "<">>
    \o <<Cmt>> \o PrintMove(2, 1)
    \o <<Cmt, "<">>
    \o <<Cmt>> \o PrintMove(0, 4)
    \o <<">", ">", "]", "<", "<">>

PrintStore(s, dest) ==
    <<Cmt>> \o PrintMove2(dest, 2, 3) \o <<Cmt>> \o PrintMove(2, dest)
    \o <<Cmt>> \o PrintSubImm(4, 3)
    \o <<Cmt>> \o PrintMove(s, 1)
    \o <<Cmt, ">", ">", ">", "[", "-", "<", "+", "<", "<">>
    \o <<Cmt>> \o PrintMove(4, 0)
    \o <<Cmt>> \o PrintMove(3, 4)
    \o <<Cmt>> \o PrintMove(2, 3)
    \o <<Cmt>> \o PrintMove(1, 2)
    \o <<Cmt, ">">>
    \o <<">", ">", ">", "]", "<", "<", "<">>
    \o <<Cmt>> \o PrintMove(1, 4)
    \o <<">", ">", "[", "-", "<", "<">>
    \o <<Cmt>> \o PrintMove(2, 1)
    \o <<Cmt, "<">>
    \o <<Cmt>> \o PrintMove(0, 4)
    \o <<">", ">", "]", "<", "<">>

\* Op::print
Op_print(o) ==
    CASE o.k = "Load"     -> PrintLoad(o.a, o.b)
      [] o.k = "Store"    -> PrintStore(o.a, o.b)
      [] o.k = "StoreImm" -> PrintStoreImm(o.a, o.b)
      [] o.k = "Move"     -> PrintMove(o.a, o.b)
      [] o.k = "Not"      -> PrintNot(o.a, o.b)
      [] o.k = "BitCast"  -> PrintBitCast(o.a, o.b)

\* pushop: the Ops of a block are printed one after the other, each after
\* its pretty-printed name
PrintOps(os) == Flatten([i \in 1..Len(os) |-> <<Cmt>> \o Op_print(os[i])])

NoProg == [op |-> [k |-> "none", a |-> 0, b |-> 0], init |-> <<>>, rest |-> <<>>]

----------------------------------------------------------------------------
(* The pipeline of run_test: bfcc::compile, compile, exec *)

NoModule == <<>>

\* no test case list: the pipeline is run on one input, outside main's loop
NoHarness == [run |-> "off", todo |-> <<>>, n |-> 0, expect |-> <<>>, reports |-> <<>>, stats |-> {}]

\* bfcc::compile: normalize the module in place, then emit
BfccCompile ==
    /\ phase = "ir"
    /\ \E m \in {Normalize(module)} :
          /\ module' = m
          /\ IF BfccAborts(m)
             THEN /\ phase' = "panic"
                  /\ err' = "bfcc"
                  /\ src' = src
             ELSE /\ phase' = "bf"
                  /\ src' = Emit(m)
                  /\ err' = err
    /\ UNCHANGED <<harness, prog, ops, execVars, naiveVars, marks, hist>>

\* compile(&bf_code), then the locals of exec
Compile ==
    /\ phase = "bf"
    /\ \E comp \in {compile(src)} :
          IF comp.panic # "none"
          THEN /\ phase' = "panic"
               /\ err' = comp.panic
               /\ UNCHANGED <<ops, marks>>
          ELSE /\ phase' = "exec"
               /\ ops' = comp.ops
               /\ marks' = IF module = NoModule THEN NoMarks ELSE Marks(module)
               /\ err' = err
    /\ pc' = 0 /\ mp' = 0 /\ steps' = 0 /\ mem' = ZeroTape /\ output' = <<>>
    /\ UNCHANGED <<harness, prog, module, src, naiveVars, hist>>

\* one turn of exec's while loop
ExecOp ==
    /\ phase = "exec"
    /\ pc < Len(ops)
    /\ steps < MaxSteps
    /\ \E r \in {ExecTurn(ops[pc + 1], pc, mp, mem, output)} :
          IF r.f # "none"
          THEN /\ phase' = "err"
               /\ err' = r.f
               /\ UNCHANGED <<execVars, hist>>
          ELSE /\ pc' = r.pc
               /\ mp' = r.mp
               /\ mem' = r.mem
               /\ output' = r.out
               /\ steps' = steps + 1
               /\ hist' = Record(hist, marks, module, pc, mp)
               /\ UNCHANGED <<phase, err>>
    /\ UNCHANGED <<harness, prog, module, src, ops, naiveVars, marks>>

\* the loop is left: the zero-tape assertion, then Ok(ExecResult)
ExecReturn ==
    /\ phase = "exec"
    /\ pc >= Len(ops)
    /\ IF TapeZero(mem)
       THEN phase' = "ok" /\ err' = err
       ELSE phase' = "panic" /\ err' = "expected all memory to be zero"
    /\ UNCHANGED <<harness, prog, module, src, ops, execVars, naiveVars, marks, hist>>

----------------------------------------------------------------------------
(* The reference run: the same text executed one op per character, with no *)
(* fusion (brackets resolved the same way).  It starts once exec is over.   *)

ZeroMsg == "expected all memory to be zero"

\* exec ran on the stream compile returned, and is over
ExecOver == phase \in {"ok", "err"} \/ (phase = "panic" /\ err = ZeroMsg)

NaiveStart ==
    /\ nphase = "idle"
    /\ ExecOver
    /\ nops' = LET p == Parse(src) IN Resolve(p, ResolveTargets(p))
    /\ nphase' = "exec"
    /\ npc' = 0 /\ nmp' = 0 /\ nmem' = ZeroTape /\ nout' = <<>>
    /\ UNCHANGED <<harness, prog, module, src, phase, ops, execVars, err, nerr, marks, hist>>

NaiveOp ==
    /\ nphase = "exec"
    /\ npc < Len(nops)
    /\ \E r \in {ExecTurn(nops[npc + 1], npc, nmp, nmem, nout)} :
          IF r.f # "none"
          THEN /\ nphase' = "err"
               /\ nerr' = r.f
               /\ UNCHANGED <<npc, nmp, nmem, nout>>
          ELSE /\ npc' = r.pc
               /\ nmp' = r.mp
               /\ nmem' = r.mem
               /\ nout' = r.out
               /\ UNCHANGED <<nphase, nerr>>
    /\ UNCHANGED <<harness, prog, module, src, phase, ops, execVars, err, nops, marks, hist>>

NaiveReturn ==
    /\ nphase = "exec"
    /\ npc >= Len(nops)
    /\ nphase' = "ok"
    /\ UNCHANGED <<harness, prog, module, src, phase, ops, execVars, err, nops, npc, nmp, nmem, nout, nerr,
                   marks, hist>>

----------------------------------------------------------------------------
(* Inputs *)

Alphabet == OpChars \cup {Cmt}

\* longer sources whose loops nest and are gone through more than once
LoopSources ==
    { <<"+", "[", "[", "-", "]", "]">>,
      <<"+", "+", "[", ">", "[", "]", "<", "-", "]">>,
      <<"+", "+", "[", ">", "+", "[", "-", "]", "<", "-", "]">> }

Sources == UNION {[1..n -> Alphabet] : n \in 0..MaxLen} \cup LoopSources

Consts == 0..MaxConst

\* bodies of the callee p, as the frontend hands them over
CalleeShapes(c) ==
    { <<BasicBlock(0, <<>>, Ret)>>,
      <<BasicBlock(0, <<Call("putchar", c)>>, Ret)>>,
      <<BasicBlock(0, <<>>, Br(1)), BasicBlock(1, <<>>, Ret)>>,
      <<BasicBlock(0, <<>>, Br(1)), BasicBlock(1, <<>>, Br(2)), BasicBlock(2, <<>>, Ret)>>,
      <<BasicBlock(0, <<>>, Br(2)), BasicBlock(1, <<>>, Ret), BasicBlock(2, <<>>, Br(1))>>,
      <<BasicBlock(0, <<Alloca(1), StoreC(c, 1)>>, Ret)>>,
      <<BasicBlock(0, <<Alloca(1), StoreC(c, 1), Load(1, 2), ICmpSLT(2, 1, 3)>>, CondBr(3, 4, 5)),
        BasicBlock(4, <<>>, Ret),
        BasicBlock(5, <<>>, Br(4))>> }

\* bodies of main that call p
CallerShapes(c) ==
    { <<BasicBlock(0, <<Call("p", 0)>>, Ret)>>,
      <<BasicBlock(0, <<Alloca(1), StoreC(0, 1), Call("p", 0)>>, Ret)>>,
      <<BasicBlock(0, <<Call("putchar", 1), Call("p", 0), Call("putchar", c)>>, Ret)>>,
      <<BasicBlock(0, <<>>, Br(1)), BasicBlock(1, <<Call("p", 0)>>, Ret)>>,
      <<BasicBlock(0, <<Call("p", 0), Call("p", 0)>>, Ret)>>,
      <<BasicBlock(0, <<Alloca(11), StoreC(c, 11), Call("p", 0)>>, Ret)>> }

\* bodies of a main that calls nothing but putchar
LoneShapes(c) ==
    { <<BasicBlock(0, <<>>, Ret)>>,
      <<BasicBlock(0, <<Alloca(1), StoreC(c, 1)>>, Ret)>>,
      <<BasicBlock(0, <<Call("putchar", c), Call("putchar", 1)>>, Ret)>>,
      <<BasicBlock(0, <<Alloca(10), StoreC(1, 10), Call("putchar", c)>>, Ret)>>,
      <<BasicBlock(0, <<Alloca(1), StoreC(c, 1), Load(1, 2), AddC(2, 1, 3)>>, Ret)>>,
      <<BasicBlock(0, <<Alloca(1), StoreC(c, 1), Load(1, 2), StoreL(2, 1)>>, Ret)>>,
      <<BasicBlock(0, <<Alloca(1), StoreC(c, 1), Load(1, 2), ICmpSLT(2, 1, 3)>>, CondBr(3, 4, 5)),
        BasicBlock(4, <<Call("putchar", 1)>>, Br(5)),
        BasicBlock(5, <<>>, Ret)>> }

\* bodies of a main on types other than i8, or with an instruction that
\* is not lowered
TypedShapes(c) ==
    { <<BasicBlock(0, <<Typed(Alloca(1), "int", 32), Typed(StoreC(c, 1), "int", 32)>>, Ret)>>,
      <<BasicBlock(0, <<Typed(Alloca(1), "int", 32), Typed(StoreC(c, 1), "int", 32),
                        Typed(Load(1, 2), "int", 32), Typed(AddC(2, 1, 3), "int", 32)>>, Ret)>>,
      <<BasicBlock(0, <<Typed(Alloca(1), "array", 8)>>, Ret)>>,
      <<BasicBlock(0, <<Alloca(1), StoreC(c, 1), Load(1, 2), Mul(2, 2, 3)>>, Ret)>> }

\* bodies that call getchar, or a function the module does not define
UnknownCalleeShapes(c) ==
    { <<BasicBlock(0, <<Call("getchar", 0)>>, Ret)>>,
      <<BasicBlock(0, <<Call("putchar", c), Call("getchar", 0)>>, Ret)>>,
      <<BasicBlock(0, <<>>, Br(1)), BasicBlock(1, <<Alloca(1), Call("r", 0)>>, Ret)>> }

Modules ==
    UNION {
        {<<Function("main", b)>> : b \in LoneShapes(c) \cup TypedShapes(c) \cup UnknownCalleeShapes(c)}
        \cup {<<Function("main", <<BasicBlock(0, <<Call("p", 0)>>, Ret)>>), Function("p", b)>> :
                 b \in UnknownCalleeShapes(c)}
        \cup UNION {{<<Function("main", a), Function("p", b)>>,
                     <<Function("p", b), Function("main", a)>>} :
                       <<a, b>> \in CallerShapes(c) \X CalleeShapes(c)}
        \cup {<<Function("main", <<BasicBlock(0, <<Call("p", 0)>>, Ret)>>),
                Function("p", <<BasicBlock(0, <<Call("q", 0)>>, Ret)>>),
                Function("q", <<BasicBlock(0, <<Call("putchar", c)>>, Ret)>>)>>,
              <<Function("q", <<BasicBlock(0, <<Call("putchar", c)>>, Ret)>>),
                Function("main", <<BasicBlock(0, <<Call("p", 0)>>, Ret)>>),
                Function("p", <<BasicBlock(0, <<Call("q", 0)>>, Ret)>>)>>}
        \cup {<<Function("main", <<BasicBlock(0, <<Call("p", 0), Call("q", 0)>>, Ret)>>),
                Function("p", <<BasicBlock(0, <<Alloca(1), StoreC(c, 1)>>, Ret)>>),
                Function("q", b)>> : b \in CalleeShapes(c)}
        : c \in Consts }

----------------------------------------------------------------------------
(* Specifications *)

InitCommon ==
    /\ ops = <<>>
    /\ pc = 0 /\ mp = 0 /\ steps = 0 /\ mem = ZeroTape /\ output = <<>>
    /\ err = "none"
    /\ nphase = "idle" /\ nops = <<>>
    /\ npc = 0 /\ nmp = 0 /\ nmem = ZeroTape /\ nout = <<>> /\ nerr = "none"
    /\ marks = NoMarks
    /\ hist = NoHist
    /\ harness = NoHarness

\* a CTL source handed to the interpreter
Init ==
    /\ module = NoModule
    /\ prog = NoProg
    /\ src \in Sources
    /\ phase = "bf"
    /\ InitCommon

Next == Compile \/ ExecOp \/ ExecReturn

Spec == Init /\ [][Next]_vars

\* the same, followed by the reference run
NextFusion == Compile \/ ExecOp \/ ExecReturn \/ NaiveStart \/ NaiveOp \/ NaiveReturn

SpecFusion == Init /\ [][NextFusion]_vars

\* a module handed to bfcc::compile and its output run by the interpreter
InitCompiled ==
    /\ module \in Modules
    /\ prog = NoProg
    /\ src = <<>>
    /\ phase = "ir"
    /\ InitCommon

NextCompiled == BfccCompile \/ Compile \/ ExecOp \/ ExecReturn

SpecCompiled == InitCompiled /\ [][NextCompiled]_vars

\* the normalizer passes applied to a module, the second application of
\* each included (phase records the passes applied so far)
PassShapes ==
    { <<BasicBlock(0, <<Call("putchar", 1)>>, CondBr(1, 1, 2)),
        BasicBlock(1, <<>>, Ret),
        BasicBlock(2, <<Call("putchar", 2), Call("putchar", 1)>>, Br(1))>>,
      <<BasicBlock(0, <<>>, Br(3)),
        BasicBlock(3, <<Alloca(1), Call("putchar", 1), StoreC(1, 1)>>, Ret)>>,
      <<BasicBlock(5, <<Call("putchar", 1), Alloca(1), Call("putchar", 2)>>, Br(2)),
        BasicBlock(2, <<>>, Ret)>> }

PassModules == Modules \cup {<<Function("main", b)>> : b \in PassShapes}

InitPasses ==
    /\ module \in PassModules
    /\ prog = NoProg
    /\ src = <<>>
    /\ phase = "ir"
    /\ InitCommon

CallsTerminateBlocks ==
    /\ phase = "ir"
    /\ module' = calls_terminate_blocks(module)
    /\ phase' = "split"
    /\ UNCHANGED <<harness, prog, src, ops, execVars, err, naiveVars, marks, hist>>

CallsTerminateBlocksAgain ==
    /\ phase = "split"
    /\ module' = calls_terminate_blocks(module)
    /\ phase' = "split2"
    /\ UNCHANGED <<harness, prog, src, ops, execVars, err, naiveVars, marks, hist>>

CallsNeverInFirstBlock ==
    /\ phase = "split"
    /\ module' = calls_never_in_first_block(module)
    /\ phase' = "norm"
    /\ UNCHANGED <<harness, prog, src, ops, execVars, err, naiveVars, marks, hist>>

CallsNeverInFirstBlockAgain ==
    /\ phase = "norm"
    /\ module' = calls_never_in_first_block(module)
    /\ phase' = "norm2"
    /\ UNCHANGED <<harness, prog, src, ops, execVars, err, naiveVars, marks, hist>>

NextPasses ==
    \/ CallsTerminateBlocks \/ CallsTerminateBlocksAgain
    \/ CallsNeverInFirstBlock \/ CallsNeverInFirstBlockAgain

SpecPasses == InitPasses /\ [][NextPasses]_vars

\* the text of an Op run by the interpreter, after the StoreImm ops that
\* set up the tape it works on
InitTapes ==
    { [i \in 0..MaxCell |-> i + 1],
      [i \in 0..MaxCell |-> IF i % 2 = 0 THEN i + 1 ELSE 0],
      [i \in 0..MaxCell |-> 0] }

LoadProgs ==
    { [op |-> Op_Load(p, d), init |-> [t EXCEPT ![p] = a], rest |-> <<>>] :
        <<p, d, a, t>> \in { x \in (3..MaxCell) \X (3..MaxCell) \X (3..MaxCell) \X InitTapes :
                                x[1] # x[2] } }

StoreProgs ==
    { [op |-> Op_Store(v, p), init |-> [t EXCEPT ![p] = a], rest |-> <<>>] :
        <<v, p, a, t>> \in { x \in (4..MaxCell) \X (4..MaxCell) \X (4..MaxCell) \X InitTapes :
                                x[1] # x[2] /\ x[3] \notin {x[1], x[2]} } }

CellValues == (0..MaxConst) \cup {CellMax}

MoveProgs ==
    { [op |-> o, init |-> [i \in 0..MaxCell |-> IF i = o.a THEN sv ELSE IF i = o.b THEN dv ELSE 0],
       rest |-> <<>>] :
        <<o, sv, dv>> \in ({Op_Move(1, 2), Op_Move(3, 1)} \X (0..MaxConst) \X (0..MaxConst))
                          \cup ({Op_Not(1, 2), Op_Not(3, 1)} \X CellValues \X (0..MaxConst)) }

\* Not(1, 2); Not(2, 3) next to BitCast(4, 5) on the same value x, and
\* Move(s, d); Move(d, s) with d zero
PairProgs ==
    { [op |-> Op_Not(1, 2), rest |-> <<Op_Not(2, 3), Op_BitCast(4, 5)>>,
       init |-> [i \in 0..MaxCell |-> IF i \in {1, 4} THEN x ELSE 0]] : x \in {0, 1} }
    \cup
    { [op |-> Op_Move(sd[1], sd[2]), rest |-> <<Op_Move(sd[2], sd[1])>>,
       init |-> [i \in 0..MaxCell |-> IF i = sd[1] THEN sv ELSE IF i = sd[2] THEN 0 ELSE i]] :
        <<sd, sv>> \in {<<1, 2>>, <<3, 1>>} \X (0..(MaxConst + 1)) }

Progs == LoadProgs \cup StoreProgs \cup MoveProgs \cup PairProgs

Prelude(init) ==
    Flatten([i \in 1..Cardinality(DOMAIN init) |->
                IF init[i - 1] = 0 THEN <<>> ELSE PrintStoreImm(init[i - 1], i - 1)])

InitOps ==
    /\ prog \in Progs
    /\ module = NoModule
    /\ src = Prelude(prog.init) \o Op_print(prog.op) \o PrintOps(prog.rest)
    /\ phase = "bf"
    /\ InitCommon

NextOps == Compile \/ ExecOp \/ ExecReturn

SpecOps == InitOps /\ [][NextOps]_vars

\* the text of one instruction's (or terminator's) lowering run by the
\* interpreter in a frame prepared for it: the frame base is one frame
\* width from the start of the tape, as the first frame's is
LowBlocks(instrs, term) ==
    <<BasicBlock(0, <<>>, Br(1)), BasicBlock(1, instrs, term),
      BasicBlock(2, <<>>, Br(3)), BasicBlock(3, <<>>, Ret)>>

LowModules(instrs, term) ==
    { <<Function("main", LowBlocks(instrs, term))>>,
      <<Function("p", <<BasicBlock(0, <<>>, Ret)>>), Function("main", LowBlocks(instrs, term))>> }

\* the offset of register r from the frame base, as gotoreg moves to it
RegOffset(m, fid, r) == Len(gotoreg(r, Len(m), Len(m[fid + 1].blocks), <<>>)) \div 2

\* the offset of the mask of block index b
MaskOffset(m, b) == Len(gotoblock(Len(m), b, <<>>)) \div 2

\* the live frame of function fid at the frame base: entry flag and
\* function mask 1, the running block's mask consumed, registers as regs
FrameTape(m, fid, regs) ==
    [c \in 0..(3 * FrameWidth - 1) |->
        IF c = FrameWidth \/ c = FrameWidth + 1 + fid THEN 1
        ELSE IF \E r \in DOMAIN regs : c = FrameWidth + RegOffset(m, fid, r)
             THEN regs[CHOOSE r \in DOMAIN regs : c = FrameWidth + RegOffset(m, fid, r)]
             ELSE 0]

Lowering(m, i, regs) ==
    [op |-> NoProg.op, rest |-> <<>>,
     low |-> [m |-> m, fid |-> FuncId(m, "main"), bid |-> 1, i |-> i],
     init |-> FrameTape(m, FuncId(m, "main"), regs)]

SignBit == (CellMax + 1) \div 2

ICmpProgs ==
    { Lowering(m, i, (i.a :> x) @@ (5 :> 1)) :
        <<i, x, m>> \in UNION { {<<ICmpSLT(ab[1], y, ab[2]), x, m>> :
                                   m \in LowModules(<<ICmpSLT(ab[1], y, ab[2])>>, Br(2))} :
                             <<ab, x, y>> \in {<<2, 3>>, <<4, 1>>} \X (0..MaxConst)
                                              \X ((0..MaxConst) \cup {SignBit}) } }

CondBrProgs ==
    { Lowering(m, t, (t.cond :> c) @@ (1 :> 2)) :
        <<t, c, m>> \in UNION { {<<t, c, m>> : m \in LowModules(<<>>, t)} :
                             <<t, c>> \in {CondBr(3, 2, 3), CondBr(3, 3, 2), CondBr(2, 0, 0)}
                                          \X {0, 1} } }

LoadProgsLowered ==
    { Lowering(m, i, (i.a :> a) @@ (i.dest :> d)) :
        <<i, a, d, m>> \in UNION { {<<i, a, d, m>> : m \in LowModules(<<i>>, Br(2))} :
                                <<i, a, d>> \in {Load(1, 2), Load(3, 1)}
                                                \X (0..MaxConst) \X (0..MaxConst) } }

AddProgs ==
    { Lowering(m, i, (i.a :> x) @@ (5 :> 1)) :
        <<i, x, m>> \in UNION { {<<AddC(ab[1], c, ab[2]), x, m>> :
                                   m \in LowModules(<<AddC(ab[1], c, ab[2])>>, Br(2))} :
                             <<ab, c, x>> \in { y \in {<<2, 3>>, <<4, 1>>} \X (0..MaxConst)
                                                       \X ((0..MaxConst) \cup {CellMax - MaxConst, CellMax}) :
                                                  y[2] + y[3] <= CellMax } } }

PutcharProgs ==
    { Lowering(m, Call("putchar", c), (1 :> 2)) :
        <<c, m>> \in UNION { {<<c, m>> : m \in LowModules(<<Call("putchar", c)>>, Br(to))} :
                          <<c, to>> \in ((0..MaxConst) \cup {CellMax}) \X {2, 3} } }

LowProgs == ICmpProgs \cup CondBrProgs \cup LoadProgsLowered \cup AddProgs \cup PutcharProgs

LowerText(low) ==
    IF low.i.k \in {"Br", "CondBr", "Ret"}
    THEN EmitTerm(low.m, low.fid, low.i)
    ELSE EmitInstr(low.m, low.fid, low.bid, low.i)

InitLowering ==
    /\ prog \in LowProgs
    /\ module = NoModule
    /\ src = Prelude(prog.init) \o Rep(">", FrameWidth) \o LowerText(prog.low)
    /\ phase = "bf"
    /\ InitCommon

NextLowering == Compile \/ ExecOp \/ ExecReturn

SpecLowering == InitLowering /\ [][NextLowering]_vars

\* verify.rs main: run_test called on one test case after the other.  A
\* case is what run_test is given: whether the case is skipped, what the
\* external frontend answers, the module it produces, the output expected.
TestCase(skip, cc, m, out) == [skip |-> skip, cc |-> cc, module |-> m, output |-> out]

Verdict(v, why) == [verdict |-> v, why |-> why]

Cases ==
    LET prints == <<Function("main", <<BasicBlock(0, <<Call("putchar", 2), Call("putchar", 1)>>, Ret)>>)>>
        leaks == <<Function("main", <<BasicBlock(0, <<Alloca(1), StoreC(1, 1)>>, Ret)>>)>>
        faults == <<Function("main", <<BasicBlock(0, <<Call("p", 0)>>, Ret)>>),
                    Function("p", <<BasicBlock(0, <<>>, Br(1)), BasicBlock(1, <<>>, Br(2)),
                                    BasicBlock(2, <<>>, Ret)>>)>>
        unsupported == <<Function("main", <<BasicBlock(0, <<Typed(Alloca(1), "array", 8)>>, Ret)>>)>>
    IN { TestCase(FALSE, "ok", prints, <<2, 1>>),
         TestCase(FALSE, "ok", prints, <<2>>),
         TestCase(FALSE, "ok", leaks, <<>>),
         TestCase(FALSE, "ok", faults, <<>>),
         TestCase(FALSE, "ok", unsupported, <<>>),
         TestCase(FALSE, "error", prints, <<2, 1>>),
         TestCase(TRUE, "ok", prints, <<2, 1>>) }

\* a case and the case that follows it in the sorted directory
Suites == {<<a, b>> : <<a, b>> \in Cases \X Cases}

InitHarness ==
    /\ module = NoModule
    /\ prog = NoProg
    /\ src = <<>>
    /\ phase = "idle"
    /\ ops = <<>>
    /\ pc = 0 /\ mp = 0 /\ steps = 0 /\ mem = ZeroTape /\ output = <<>>
    /\ err = "none"
    /\ nphase = "idle" /\ nops = <<>>
    /\ npc = 0 /\ nmp = 0 /\ nmem = ZeroTape /\ nout = <<>> /\ nerr = "none"
    /\ marks = NoMarks
    /\ hist = NoHist
    /\ \E suite \in Suites :
          harness = [run |-> "idle", todo |-> suite, n |-> 0, expect |-> <<>>,
                     reports |-> <<>>, stats |-> {}]

\* run_test from its start to the call of compile_bf: skip, the frontend
RunTest ==
    /\ harness.run = "idle"
    /\ harness.todo # <<>>
    /\ LET info == Head(harness.todo)
           begun == [harness EXCEPT !.todo = Tail(@), !.n = @ + 1]
       IN IF info.skip
          THEN /\ harness' = [begun EXCEPT !.reports = Append(@, Verdict("skip", "skip"))]
               /\ UNCHANGED <<module, src, phase, ops, execVars, err, marks, hist>>
          ELSE IF info.cc # "ok"
          THEN /\ harness' = [begun EXCEPT !.reports = Append(@, Verdict("fail", info.cc))]
               /\ UNCHANGED <<module, src, phase, ops, execVars, err, marks, hist>>
          ELSE /\ harness' = [begun EXCEPT !.run = "running", !.expect = info.output]
               /\ module' = info.module
               /\ src' = <<>>
               /\ phase' = "ir"
               /\ ops' = <<>>
               /\ pc' = 0 /\ mp' = 0 /\ steps' = 0 /\ mem' = ZeroTape /\ output' = <<>>
               /\ err' = "none"
               /\ marks' = NoMarks
               /\ hist' = NoHist
    /\ UNCHANGED <<prog, naiveVars>>

\* run_test after exec has returned: the error, the comparison, the stats
Report ==
    /\ harness.run = "running"
    /\ phase \in {"ok", "err"}
    /\ harness' =
          IF phase = "err"
          THEN [harness EXCEPT !.run = "idle", !.reports = Append(@, Verdict("fail", err))]
          ELSE IF output # harness.expect
          THEN [harness EXCEPT !.run = "idle", !.reports = Append(@, Verdict("fail", "OUTPUT MISMATCH"))]
          ELSE [harness EXCEPT !.run = "idle", !.reports = Append(@, Verdict("pass", "pass")),
                               !.stats = @ \cup {<<harness.n, steps>>}]
    /\ UNCHANGED <<prog, module, src, phase, ops, execVars, err, naiveVars, marks, hist>>

\* a panic below run_test is caught nowhere: it unwinds through run_test
\* and main, and the process ends
Unwind ==
    /\ harness.run = "running"
    /\ phase = "panic"
    /\ harness' = [harness EXCEPT !.run = "aborted"]
    /\ UNCHANGED <<prog, module, src, phase, ops, execVars, err, naiveVars, marks, hist>>

NextHarness == RunTest \/ BfccCompile \/ Compile \/ ExecOp \/ ExecReturn \/ Report \/ Unwind

SpecHarness == InitHarness /\ [][NextHarness]_vars

----------------------------------------------------------------------------
TypeOK ==
    /\ phase \in {"idle", "ir", "bf", "exec", "ok", "err", "panic", "split", "split2", "norm", "norm2"}
    /\ pc \in Nat /\ mp \in 0..(MemLen - 1) /\ steps \in 0..MaxSteps
    /\ \A i \in DOMAIN mem : mem[i] \in 1..CellMax

----------------------------------------------------------------------------
(* Properties *)

\* exec has left its loop (before, or after, the zero-tape assertion)
Halted ==
    \/ phase = "exec" /\ pc >= Len(ops)
    \/ phase = "ok"
    \/ phase = "panic" /\ err = ZeroMsg

Compiled == module # NoModule /\ phase \in {"exec", "ok", "err", "panic"} /\ err # "bfcc"

(* C1: when a compiled program halts (the outermost dispatch loop exits),  *)
(* every tape cell is zero.                                                *)
C1_TapeZeroAtHalt == (Compiled /\ Halted) => TapeZero(mem)

(* C2: after a callee's Ret, the next block body that runs is the caller's *)
(* post-call block, in the caller's function and in the caller's frame.    *)
C2_ResumesAtPostCall ==
    (Compiled /\ phase = "exec" /\ hist.expect # None) =>
        \A e \in At(marks.body, pc) :
            hist.expect = [fn |-> e[2], blk |-> e[3],
                           base |-> mp - (1 + Len(module) + e[3])]

(* C3: when a compiled program halts, every executed Call has been matched *)
(* by an executed Ret (main's own Ret answers the runtime init's first     *)
(* frame) and the head is back where the program started, at cell 0.       *)
C3_CallsMatchedAtHalt ==
    (Compiled /\ Halted) =>
        /\ hist.rets = hist.calls + 1
        /\ hist.stack = <<>>
        /\ mp = 0

C3_Witness == Compiled /\ Halted /\ hist.calls >= 2 /\ hist.rets = hist.calls + 1 /\ mp = 0

\* the guard ("[" or "]") of block e[3] of function e[2] is about to be tested
GuardsAt(p) ==
    IF p >= Len(ops) THEN {}
    ELSE IF IsJz(ops[p + 1]) THEN At(marks.body, p + 1)
    ELSE IF IsJnz(ops[p + 1]) THEN At(marks.body, ops[p + 1].n + 1)
    ELSE {}

OneHot(cells) ==
    \E c \in cells : Rd(mem, c) = 1 /\ \A d \in cells \ {c} : Rd(mem, d) = 0

\* exactly one function mask of the frame at base is 1, and exactly one
\* block mask of that function
MasksOneHot(base) ==
    LET funcns == Len(module)
    IN /\ OneHot({base + 1 + f : f \in 0..(funcns - 1)})
       /\ \A f \in 0..(funcns - 1) :
            Rd(mem, base + 1 + f) = 1 =>
                OneHot({base + 1 + funcns + b : b \in 0..(Len(module[f + 1].blocks) - 1)})

(* C4: exactly one function-mask cell and exactly one block-mask cell of   *)
(* the active frame is 1; stated where the dispatch reads the masks, at    *)
(* every test of a block guard in a live frame (entry flag 1).             *)
C4_MasksOneHotAtGuards ==
    (Compiled /\ phase = "exec") =>
        \A e \in GuardsAt(pc) :
            LET base == mp - (1 + Len(module) + e[3])
            IN Rd(mem, base) = 1 => MasksOneHot(base)

(* C5: running the fused op stream ends as the one-op-per-character run    *)
(* of the same source does: the same fault kind, or the same output and    *)
(* the same final tape.                                                    *)
C5_FusedAgreesWithNaive ==
    nphase \in {"ok", "err"} =>
        IF nphase = "err"
        THEN phase = "err" /\ err = nerr
        ELSE phase \in {"ok", "panic"} /\ output = nout /\ mem = nmem

(* C6: a program in which a "<" is executed with the head at cell 0 (the   *)
(* one-op-per-character run faults with MemUnderflow) ends with the fault  *)
(* MemUnderflow.                                                           *)
C6_UnderflowReported ==
    (nphase = "err" /\ nerr = "MemUnderflow") => (phase = "err" /\ err = "MemUnderflow")

(* C7: Add(n) on a cell holding c stores c+n when 0 <= c+n <= 255, faults  *)
(* with IntOverflow above 255 and IntUnderflow below 0, and never wraps;   *)
(* "+[+]", 256 increments of one cell, ends with IntOverflow.              *)
AddStepChecked ==
    (phase = "exec" /\ pc < Len(ops) /\ ops[pc + 1].op = "Add") =>
        LET v == Rd(mem, mp) + ops[pc + 1].n
        IN /\ (0 <= v /\ v <= 255) =>
                /\ phase' = "exec"
                /\ Rd(mem', mp) = v
                /\ \A i \in (DOMAIN mem \cup DOMAIN mem') \ {mp} : Rd(mem', i) = Rd(mem, i)
           /\ v > 255 => (phase' = "err" /\ err' = "IntOverflow" /\ mem' = mem)
           /\ v < 0 => (phase' = "err" /\ err' = "IntUnderflow" /\ mem' = mem)

IncrLoop == <<"+", "[", "+", "]">>

C7_AddFaultsNeverWraps ==
    /\ [][AddStepChecked]_vars
    /\ [](src = IncrLoop /\ phase = "exec" => Rd(mem, 0) <= 255 /\ steps < 2 * 256)
    /\ [](src = IncrLoop /\ phase \notin {"bf", "exec"} => phase = "err" /\ err = "IntOverflow")

C7_Witness ==
    /\ src = IncrLoop /\ phase = "err" /\ err = "IntOverflow"
    /\ Rd(mem, 0) = 255 /\ ops[pc + 1] = OpAdd(1)

\* the ops strictly between 0-based indices i and j nest properly
NestedBetween(p, i, j) ==
    /\ \A k \in (i + 1)..(j - 1) :
          Cardinality({x \in (i + 1)..k : IsJz(p[x + 1])})
              >= Cardinality({x \in (i + 1)..k : IsJnz(p[x + 1])})
    /\ Cardinality({x \in (i + 1)..(j - 1) : IsJz(p[x + 1])})
          = Cardinality({x \in (i + 1)..(j - 1) : IsJnz(p[x + 1])})

(* C8: in the stream compile returns, each JmpIfZ at index i holds the     *)
(* index j of its properly nested matching JmpIfNZ, and that JmpIfNZ       *)
(* holds i.                                                                *)
C8_BracketsResolved ==
    (module = NoModule /\ phase = "exec") =>
        /\ \A i \in 0..(Len(ops) - 1) :
              IsJz(ops[i + 1]) =>
                  LET j == ops[i + 1].n
                  IN /\ i < j /\ j < Len(ops)
                     /\ IsJnz(ops[j + 1])
                     /\ ops[j + 1].n = i
                     /\ NestedBetween(ops, i, j)
        /\ \A j \in 0..(Len(ops) - 1) :
              IsJnz(ops[j + 1]) =>
                  LET i == ops[j + 1].n
                  IN 0 <= i /\ i < j /\ IsJz(ops[i + 1]) /\ ops[i + 1].n = j

C8_Witness ==
    /\ phase = "exec"
    /\ src = <<"[", "[", "]", "]">>
    /\ ops[1].n = 3 /\ ops[2].n = 2 /\ ops[3].n = 1 /\ ops[4].n = 0

\* the brackets of a source text are balanced
Brackets(code, k, c) == Cardinality({x \in 1..k : code[x] = c})

SrcBalanced(code) ==
    /\ \A k \in 1..Len(code) : Brackets(code, k, "[") >= Brackets(code, k, "]")
    /\ Brackets(code, Len(code), "[") = Brackets(code, Len(code), "]")

(* C9: compile rejects every source whose brackets are unbalanced: it      *)
(* panics and returns no op stream.                                       *)
C9_UnbalancedRejected ==
    (module = NoModule /\ ~SrcBalanced(src)) =>
        /\ phase \in {"bf", "panic"}
        /\ ops = <<>>

C9_Witness ==
    /\ src = <<"[", "]", "]">>
    /\ phase = "panic" /\ err = "unbalanced?"

(* C10: exec returns Ok only with the program counter past the last op     *)
(* and every tape cell zero.                                               *)
C10_OkOnlyWithZeroTape ==
    phase = "ok" =>
        /\ pc >= Len(ops)
        /\ \A i \in DOMAIN mem : mem[i] = 0

C10_Witness ==
    /\ phase = "ok" /\ pc = Len(ops)
    /\ src = <<"+", ">", "<", "-">>
    /\ steps = 3 /\ mp = 0

(* C11: calls_terminate_blocks applied to a module that has already been   *)
(* through calls_terminate_blocks leaves every function's block list       *)
(* unchanged.                                                              *)
C11_SplitIdempotent ==
    [][(phase = "split" /\ phase' = "split2") => module' = module]_vars

\* every Call is the last instruction of its block, before a Br
CallsEndBlocks(m) ==
    \A f \in 1..Len(m) : \A b \in 1..Len(m[f].blocks) :
        \A i \in 1..Len(m[f].blocks[b].instrs) :
            m[f].blocks[b].instrs[i].k = "Call" =>
                /\ i = Len(m[f].blocks[b].instrs)
                /\ m[f].blocks[b].term.k = "Br"

\* some block of m holds a Call
CallsSomewhere(m) ==
    \E f \in 1..Len(m) : \E b \in 1..Len(m[f].blocks) :
        \E i \in 1..Len(m[f].blocks[b].instrs) : m[f].blocks[b].instrs[i].k = "Call"

\* no Call in the entry block of any function
EntryCallFree(m) ==
    \A f \in 1..Len(m) :
        \A i \in 1..Len(m[f].blocks[1].instrs) : m[f].blocks[1].instrs[i].k # "Call"

(* C12: after calls_terminate_blocks and calls_never_in_first_block every  *)
(* Call is the last instruction of its block and the block ends in Br.     *)
C12_CallsTerminateBlocks ==
    phase \in {"norm", "norm2"} => CallsEndBlocks(module)

C12_Witness ==
    /\ phase = "norm"
    /\ Len(module) = 1 /\ Len(module[1].blocks) = 7
    /\ CallsEndBlocks(module)

(* C13: after both passes the entry block of every function holds no Call, *)
(* and calls_never_in_first_block applied again changes nothing.           *)
C13_EntryCallFree ==
    /\ [](phase \in {"norm", "norm2"} => EntryCallFree(module))
    /\ [][(phase = "norm" /\ phase' = "norm2") => module' = module]_vars

C13_Witness ==
    /\ phase = "norm2"
    /\ CallsSomewhere(module)
    /\ \E f \in 1..Len(module) :
          Len(module[f].blocks) >= 3 /\ module[f].blocks[1].instrs = <<>>
             /\ module[f].blocks[1].term = Br(module[f].blocks[2].name)
             /\ HasCall(module[f].blocks[2])

\* the farthest cell, as an offset from where it starts, that a piece of
\* emitted text moves the head to
Reach(text) ==
    Max({Cardinality({x \in 1..k : text[x] = ">"}) - Cardinality({x \in 1..k : text[x] = "<"}) :
            k \in 0..Len(text)})

\* the text an instruction runs in the frame of its own function: a Call of
\* a function leaves the frame after arming the post-call block
OwnFrameText(m, fid, bid, instr) ==
    IF instr.k = "Call" /\ instr.fn # "putchar"
    THEN gotoblock(Len(m), BlockIdx(m, fid, m[fid + 1].blocks[bid + 1].term.dest), <<Cmt, "+">>)
    ELSE EmitInstr(m, fid, bid, instr)

\* the largest offset block bid of function fid addresses in its frame
BlockReach(m, fid, bid) ==
    LET blk == m[fid + 1].blocks[bid + 1]
    IN Max({Reach(gotoblock(Len(m), bid, <<Cmt, "[", "-">>))}
           \cup {Reach(OwnFrameText(m, fid, bid, blk.instrs[i])) : i \in 1..Len(blk.instrs)}
           \cup (IF HasCall(blk) THEN {} ELSE {Reach(EmitTerm(m, fid, blk.term))}))

FrameReach(m, fid) ==
    Max({Reach(FuncOpen(fid))}
        \cup {BlockReach(m, fid, bid) : bid \in 0..(Len(m[fid + 1].blocks) - 1)})

(* C14: every cell a function's lowering addresses in its own frame lies   *)
(* at an offset below the frame width, and when a Call creates the         *)
(* callee's frame every cell of that frame is zero.                        *)
C14_FrameHoldsItsCells ==
    /\ phase = "bf" /\ module # NoModule =>
          \A fid \in 0..(Len(module) - 1) : FrameReach(module, fid) < FrameWidth
    /\ (Compiled /\ phase = "exec" /\ At(marks.call, pc) # {}) =>
          \A i \in DOMAIN mem : i < mp

\* the register indices an instruction or terminator names by SSA number
SSAOf(i) ==
    CASE i.k = "Alloca"  -> {i.dest}
      [] i.k = "StoreC"  -> {i.b}
      [] i.k = "StoreL"  -> {i.a, i.b}
      [] i.k \in {"Load", "ICmpSLT", "Add"} -> {i.a, i.dest}
      [] i.k = "CondBr"  -> {i.cond}
      [] OTHER -> {}

\* the scratch register indices its lowering works in
ScratchOf(i) ==
    CASE i.k = "Call" /\ i.fn = "putchar" -> {scratch + 0}
      [] i.k \in {"Load", "Add", "CondBr"} -> {scratch + 0}
      [] i.k = "ICmpSLT" -> (scratch + 0)..(scratch + 4)
      [] OTHER -> {}

\* the instructions of function fid, and the terminators that are lowered
Lowered(m, fid) ==
    UNION {{m[fid + 1].blocks[b].instrs[i] : i \in 1..Len(m[fid + 1].blocks[b].instrs)}
           \cup (IF HasCall(m[fid + 1].blocks[b]) THEN {} ELSE {m[fid + 1].blocks[b].term}) :
              b \in 1..Len(m[fid + 1].blocks)}

\* the cell of register reg, as an offset from the frame base
RegCell(m, fid, reg) == Reach(gotoreg(reg, Len(m), Len(m[fid + 1].blocks), <<>>))

(* C15: in every function the scratch cells the lowering works in are      *)
(* distinct from every register cell indexed by an SSA value number of     *)
(* that function.                                                          *)
C15_ScratchApartFromRegisters ==
    (phase = "bf" /\ module # NoModule) =>
        \A fid \in 0..(Len(module) - 1) :
            {RegCell(module, fid, r) : r \in UNION {ScratchOf(i) : i \in Lowered(module, fid)}}
              \cap {RegCell(module, fid, r) : r \in UNION {SSAOf(i) : i \in Lowered(module, fid)}}
            = {}

\* an instruction of m outside the supported set: a kind that is not
\* lowered, or an Alloca, Store, Load or Add that is not on i8
Unsupported(m) ==
    \E f \in 1..Len(m) : \E b \in 1..Len(m[f].blocks) :
        \E i \in 1..Len(m[f].blocks[b].instrs) :
            LET instr == m[f].blocks[b].instrs[i]
            IN \/ instr.k \notin {"Call", "Alloca", "StoreL", "StoreC", "Load", "ICmpSLT", "Add"}
               \/ /\ instr.k \in {"Alloca", "StoreL", "StoreC", "Load", "Add"}
                  /\ (TyOf(instr) # "int" \/ Bits(instr) # 8)

(* C16: bfcc::compile aborts, returning no CTL text, whenever the module   *)
(* holds an instruction outside the supported set; an Alloca, Store, Load  *)
(* or Add on an integer type that is not 8 bits wide aborts it.            *)
C16_UnsupportedAborts ==
    (module # NoModule /\ Unsupported(module) /\ phase # "ir") =>
        (phase = "panic" /\ err = "bfcc" /\ src = <<>>)

\* the printed Op ran to its end: no fault, and the step cap was not met
RanThrough ==
    /\ phase # "err"
    /\ ~(phase = "exec" /\ pc < Len(ops) /\ steps >= MaxSteps)

(* C17: Op::Load(p, d) run with the head at the base cell and a = tape[p],  *)
(* a >= 3, ends with tape[d] = the initial tape[a], tape[p] = a, the head   *)
(* at the base cell and every cell but d and the station cells 0..2 as it  *)
(* was.                                                                    *)
C17_LoadCopies ==
    (prog.op.k = "Load" /\ prog.rest = <<>>) =>
        /\ RanThrough
        /\ Halted =>
              LET p == prog.op.a
                  d == prog.op.b
                  a == prog.init[p]
              IN /\ Rd(mem, d) = prog.init[a]
                 /\ (p # d => Rd(mem, p) = a)
                 /\ mp = 0
                 /\ \A i \in (3..MaxCell) \ {d} : Rd(mem, i) = prog.init[i]
                 /\ \A i \in DOMAIN mem : i <= MaxCell

C17_Witness ==
    /\ prog.op = Op_Load(4, 3) /\ prog.init[4] = 6
    /\ prog.init[6] = 7 /\ prog.init[5] = 6
    /\ Halted /\ mp = 0
    /\ Rd(mem, 3) = 7 /\ Rd(mem, 6) = 7 /\ Rd(mem, 5) = 6 /\ Rd(mem, 4) = 6

(* C18: Op::Store(v, p) run with the head at the base cell and a = tape[p], *)
(* a >= 4, ends with tape[a] = the initial tape[v], tape[v] = 0,           *)
(* tape[p] = a, the head at the base cell and every other cell outside     *)
(* the station cells 0..3 as it was.                                       *)
C18_StoreWrites ==
    (prog.op.k = "Store" /\ prog.rest = <<>>) =>
        /\ RanThrough
        /\ Halted =>
              LET v == prog.op.a
                  p == prog.op.b
                  a == prog.init[p]
              IN /\ Rd(mem, a) = prog.init[v]
                 /\ Rd(mem, v) = 0
                 /\ Rd(mem, p) = a
                 /\ mp = 0
                 /\ \A i \in (4..MaxCell) \ {a, v} : Rd(mem, i) = prog.init[i]
                 /\ \A i \in DOMAIN mem : i <= MaxCell

C18_Witness ==
    /\ prog.op = Op_Store(5, 4) /\ prog.init[4] = 7
    /\ prog.init[5] = 6 /\ prog.init[7] = 8 /\ prog.init[6] = 7
    /\ Halted /\ mp = 0
    /\ Rd(mem, 7) = 6 /\ Rd(mem, 5) = 0 /\ Rd(mem, 4) = 7 /\ Rd(mem, 6) = 7

(* C19: Op::Move(s, d), s # d, ends with tape[d] = initial tape[d] +        *)
(* initial tape[s], tape[s] = 0 and the head at the base cell, whatever d  *)
(* held.                                                                   *)
C19_MoveAdds ==
    (prog.op.k = "Move" /\ prog.rest = <<>>) =>
        /\ RanThrough
        /\ Halted =>
              /\ Rd(mem, prog.op.b) = prog.init[prog.op.b] + prog.init[prog.op.a]
              /\ Rd(mem, prog.op.a) = 0
              /\ mp = 0

(* C19, amended: Op::Move(s, d), s # d, ends with tape[d] = initial         *)
(* tape[s] (what d held is discarded), tape[s] = 0 and the head at the     *)
(* base cell, whatever d held.                                             *)
C19_MoveReplaces ==
    (prog.op.k = "Move" /\ prog.rest = <<>>) =>
        /\ RanThrough
        /\ Halted =>
              /\ Rd(mem, prog.op.b) = prog.init[prog.op.a]
              /\ Rd(mem, prog.op.a) = 0
              /\ mp = 0
              /\ \A i \in DOMAIN mem : i = prog.op.b

C19_Witness ==
    /\ prog.op = Op_Move(3, 1) /\ prog.init[3] = 2 /\ prog.init[1] = 1
    /\ Halted /\ mp = 0
    /\ Rd(mem, 1) = 2 /\ Rd(mem, 3) = 0

(* C20: Op::Not(s, d), s # d, ends with tape[d] = 1 if the initial tape[s] *)
(* was 0 and tape[d] = 0 otherwise, and tape[s] = 0, for every initial     *)
(* value of s and whatever d held.                                         *)
C20_NotSetsFlag ==
    (prog.op.k = "Not" /\ prog.rest = <<>>) =>
        /\ RanThrough
        /\ Halted =>
              /\ Rd(mem, prog.op.b) = (IF prog.init[prog.op.a] = 0 THEN 1 ELSE 0)
              /\ Rd(mem, prog.op.a) = 0

\* the Ops run are a first Op followed by n more
PairOf(k, n) == prog.op.k = k /\ Len(prog.rest) = n

(* C21: for x in {0, 1}, Op::Not(x, t) then Op::Not(t, r), with t and r    *)
(* zero before, leaves in r the value that Op::BitCast(x, r) leaves in r   *)
(* (here run side by side: Not(1, 2); Not(2, 3) and BitCast(4, 5) with     *)
(* cells 1 and 4 holding x).                                               *)
C21_NotNotIsBitCast ==
    PairOf("Not", 2) =>
        /\ RanThrough
        /\ Halted => Rd(mem, 3) = Rd(mem, 5)

C21_Witness ==
    /\ PairOf("Not", 2) /\ prog.init[1] = 1 /\ prog.init[4] = 1
    /\ Halted /\ Rd(mem, 3) = 1 /\ Rd(mem, 5) = 1 /\ Rd(mem, 2) = 0

(* C22: Op::Move(s, d) followed by Op::Move(d, s), with tape[d] = 0        *)
(* before, leaves tape[s] and tape[d] (and every other cell) as they were, *)
(* for every initial value of s.                                           *)
C22_MoveThereAndBack ==
    PairOf("Move", 1) =>
        /\ RanThrough
        /\ Halted =>
              /\ Rd(mem, prog.op.a) = prog.init[prog.op.a]
              /\ Rd(mem, prog.op.b) = 0
              /\ mp = 0
              /\ \A i \in 0..MaxCell : Rd(mem, i) = prog.init[i]

C22_Witness ==
    /\ PairOf("Move", 1) /\ prog.op = Op_Move(3, 1)
    /\ prog.init[3] = MaxConst + 1 /\ prog.init[1] = 0
    /\ Halted /\ mp = 0 /\ Rd(mem, 3) = MaxConst + 1 /\ Rd(mem, 1) = 0

\* some Call of m names a function that is neither putchar nor defined in m
CallsUnknown(m) ==
    \E f \in 1..Len(m) : \E b \in 1..Len(m[f].blocks) :
        \E i \in 1..Len(m[f].blocks[b].instrs) :
            LET instr == m[f].blocks[b].instrs[i]
            IN instr.k = "Call" /\ instr.fn # "putchar" /\ FuncId(m, instr.fn) = -1

(* C23: bfcc::compile aborts, returning no CTL text, on every module with  *)
(* a Call of getchar or of any other function that is neither putchar nor  *)
(* defined in the module.                                                  *)
C23_UnknownCalleeAborts ==
    (module # NoModule /\ CallsUnknown(module) /\ phase # "ir") =>
        (phase = "panic" /\ err = "bfcc" /\ src = <<>> /\ ops = <<>>)

C23_Witness ==
    /\ phase = "panic" /\ err = "bfcc" /\ src = <<>>
    /\ Len(module) = 2 /\ module[2].name = "p"
    /\ \E b \in 1..Len(module[2].blocks) :
          module[2].blocks[b].instrs = <<Call("putchar", 1)>>
    /\ \E b \in 1..Len(module[2].blocks) :
          module[2].blocks[b].instrs = <<Call("getchar", 0)>>

\* the lowering run on its own, and the cells of its frame
LowIs(k) == prog.low.i.k = k
RegInit(r) == prog.init[FrameWidth + RegOffset(prog.low.m, prog.low.fid, r)]
RegAt(r) == Rd(mem, FrameWidth + RegOffset(prog.low.m, prog.low.fid, r))
MaskAt(b) == Rd(mem, FrameWidth + MaskOffset(prog.low.m, b))

(* C24: the ICmp SLT lowering, run with dest and scratch+0..scratch+4      *)
(* zero, ends with dest = 1 if x < y (as values 0..255) and 0 otherwise,   *)
(* op0 still x, the five working cells zero, the head at the frame base,   *)
(* and no cell driven below 0 or above 255 on the way.                     *)
C24_ICmpUnsignedLess ==
    LowIs("ICmpSLT") =>
        /\ RanThrough
        /\ Halted =>
              LET i == prog.low.i
                  x == RegInit(i.a)
                  y == i.b
              IN /\ RegAt(i.dest) = (IF x < y THEN 1 ELSE 0)
                 /\ RegAt(i.a) = x
                 /\ \A w \in 0..4 : RegAt(scratch + w) = 0
                 /\ mp = FrameWidth

C24_Witness ==
    /\ LowIs("ICmpSLT") /\ Halted /\ mp = FrameWidth
    /\ RegInit(prog.low.i.a) = 1 /\ prog.low.i.b = 2
    /\ RegAt(prog.low.i.dest) = 1 /\ RegAt(prog.low.i.a) = 1

\* an 8-bit value read as two's complement
Signed(v) == IF v >= SignBit THEN v - (CellMax + 1) ELSE v

(* C25: the ICmp SLT lowering computes signed less-than: dest ends as 1    *)
(* exactly when signed(op0) < signed(op1), the operands read as 8-bit      *)
(* two's-complement values.                                                *)
C25_ICmpSignedLess ==
    (LowIs("ICmpSLT") /\ Halted) =>
        LET i == prog.low.i
        IN RegAt(i.dest) = (IF Signed(RegInit(i.a)) < Signed(i.b) THEN 1 ELSE 0)

(* C26: the CondBr lowering, run with cond in {0, 1} and scratch+0 zero,   *)
(* ends with exactly one block mask of the frame at 1, the true            *)
(* destination's when cond was 1 and the false destination's when cond was *)
(* 0, with cond and scratch+0 zero and the head at the frame base.         *)
C26_CondBrArmsOne ==
    LowIs("CondBr") =>
        /\ RanThrough
        /\ Halted =>
              LET t == prog.low.i
                  m == prog.low.m
                  to == BlockIdx(m, prog.low.fid,
                                 IF RegInit(t.cond) = 1 THEN t.dest ELSE t.fdest)
              IN /\ \A b \in 0..(Len(m[prog.low.fid + 1].blocks) - 1) :
                        MaskAt(b) = (IF b = to THEN 1 ELSE 0)
                 /\ RegAt(t.cond) = 0
                 /\ RegAt(scratch + 0) = 0
                 /\ mp = FrameWidth

C26_Witness ==
    /\ LowIs("CondBr") /\ Halted /\ mp = FrameWidth
    /\ prog.low.i = CondBr(3, 2, 3) /\ RegInit(3) = 1
    /\ MaskAt(2) = 1 /\ MaskAt(3) = 0 /\ RegAt(3) = 0

(* C27: each time the Load lowering runs it ends with dest equal to the    *)
(* value held in addr, addr unchanged and scratch+0 zero, whatever dest    *)
(* held before.                                                            *)
C27_LoadSetsDest ==
    LowIs("Load") =>
        /\ RanThrough
        /\ Halted =>
              LET i == prog.low.i
              IN /\ RegAt(i.dest) = RegInit(i.a)
                 /\ RegAt(i.a) = RegInit(i.a)
                 /\ RegAt(scratch + 0) = 0

(* C28: the Add lowering with local op0 and constant c, run with dest and  *)
(* scratch+0 zero and op0 + c <= 255, ends with dest = op0 + c, op0 = 0,   *)
(* scratch+0 = 0 and the head at the frame base.                           *)
C28_AddConstant ==
    LowIs("Add") =>
        /\ RanThrough
        /\ Halted =>
              LET i == prog.low.i
              IN /\ RegAt(i.dest) = RegInit(i.a) + i.b
                 /\ RegAt(i.a) = 0
                 /\ RegAt(scratch + 0) = 0
                 /\ mp = FrameWidth

C28_Witness ==
    /\ LowIs("Add") /\ Halted /\ mp = FrameWidth
    /\ prog.low.i.b = 1 /\ RegInit(prog.low.i.a) = CellMax - MaxConst
    /\ RegAt(prog.low.i.dest) = CellMax - MaxConst + 1 /\ RegAt(prog.low.i.a) = 0

(* C30: the putchar intrinsic lowering with constant argument c appends    *)
(* exactly the byte c to the output, arms the post-call block mask in the  *)
(* current frame, leaves scratch+0 zero and does not change the frame:     *)
(* the head is at the same frame base before and after.                    *)
C30_PutcharInPlace ==
    (LowIs("Call") /\ prog.low.i.fn = "putchar") =>
        /\ RanThrough
        /\ Halted =>
              LET m == prog.low.m
                  fid == prog.low.fid
                  to == BlockIdx(m, fid, m[fid + 1].blocks[prog.low.bid + 1].term.dest)
              IN /\ output = <<prog.low.i.a>>
                 /\ \A b \in 0..(Len(m[fid + 1].blocks) - 1) :
                        MaskAt(b) = (IF b = to THEN 1 ELSE 0)
                 /\ RegAt(scratch + 0) = 0
                 /\ mp = FrameWidth
                 /\ \A c \in DOMAIN prog.init :
                        c # FrameWidth + MaskOffset(m, to) => Rd(mem, c) = prog.init[c]
                 /\ \A c \in DOMAIN mem : c \in DOMAIN prog.init

C30_Witness ==
    /\ LowIs("Call") /\ prog.low.i = Call("putchar", CellMax) /\ Halted
    /\ output = <<CellMax>> /\ mp = FrameWidth /\ Len(prog.low.m) = 2
    /\ RegAt(scratch + 0) = 0 /\ MaskAt(3) = 1

(* C29: after a non-intrinsic Call executes in a caller block, the head is *)
(* one frame width to the right of the caller's frame, the new frame has   *)
(* entry flag 1 and only the callee's function mask and block mask 0 set,  *)
(* the caller's frame has the post-call block mask armed, and the next     *)
(* block body executed is the callee's entry block in the new frame.       *)
C29_CallEntersCallee ==
    (Compiled /\ phase = "exec") =>
        /\ \A e \in At(marks.enter, pc - 1) :
              LET funcns == Len(module)
                  blk == module[e[2] + 1].blocks[e[3] + 1]
                  callee == FuncId(module, blk.instrs[Len(blk.instrs)].fn)
                  base == mp - (1 + funcns)
              IN /\ base = hist.frame + FrameWidth
                 /\ Rd(mem, base) = 1
                 /\ \A f \in 0..(funcns - 1) :
                        Rd(mem, base + 1 + f) = (IF f = callee THEN 1 ELSE 0)
                 /\ \A b \in 0..(Len(module[callee + 1].blocks) - 1) :
                        Rd(mem, base + 1 + funcns + b) = (IF b = 0 THEN 1 ELSE 0)
                 /\ Rd(mem, hist.frame + 1 + funcns + PostCall(module, e[2], e[3])) = 1
        /\ hist.entry # None =>
              \A e \in At(marks.body, pc) :
                  hist.entry = [fn |-> e[2], blk |-> e[3],
                                base |-> mp - (1 + Len(module) + e[3])]

----------------------------------------------------------------------------
(* C31: in every iteration of the outermost dispatch loop of a compiled    *)
(* program, block bodies of exactly one function are executed: never of    *)
(* two functions, and of one when the iteration ends at the loop's "]".    *)
C31_OneFunctionPerIteration ==
    (Compiled /\ phase = "exec") =>
        /\ Cardinality(hist.ran) <= 1
        /\ pc = marks.close => Cardinality(hist.ran) = 1

----------------------------------------------------------------------------
\* the JmpIfNZ at j closes the loop the JmpIfZ at i opens
Matched(p, i, j) ==
    /\ i < j
    /\ IsJz(p[i + 1]) /\ IsJnz(p[j + 1])
    /\ NestedBetween(p, i, j)

\* one turn of exec's loop that completes: where pc goes, and the count
LoopStep ==
    (phase = "exec" /\ phase' = "exec") =>
        LET o == ops[pc + 1]
        IN /\ pc < Len(ops)
           /\ (IsJz(o) /\ Rd(mem, mp) = 0) =>
                 \E j \in (pc + 1)..(Len(ops) - 1) : Matched(ops, pc, j) /\ pc' = j + 1
           /\ (IsJnz(o) /\ Rd(mem, mp) # 0) =>
                 \E i \in 0..(pc - 1) : Matched(ops, i, pc) /\ pc' = i + 1
           /\ ~(IsJz(o) /\ Rd(mem, mp) = 0) /\ ~(IsJnz(o) /\ Rd(mem, mp) # 0) => pc' = pc + 1
           /\ steps' = steps + 1

(* C32: loops are while-current-cell-non-zero: a JmpIfZ on a zero cell     *)
(* continues after its matching JmpIfNZ, a JmpIfNZ on a non-zero cell      *)
(* continues after its matching JmpIfZ, every other turn falls through;    *)
(* pc stays within 0..ops.len() and an op is read only below ops.len();    *)
(* steps counts the ops executed: 0 at the start, one more per turn        *)
(* completed, unchanged by the fault or the return that ends the run.      *)
C32_LoopsWhileNonZero ==
    /\ [][LoopStep]_vars
    /\ [](phase = "exec" => pc \in 0..Len(ops))
    /\ [][phase = "bf" => steps' = 0]_vars
    /\ [][(phase = "exec" /\ phase' # "exec") => steps' = steps]_vars

\* a loop gone through twice, with a loop nested in it entered each time
C32_Witness ==
    /\ src \in LoopSources /\ Len(src) = 11
    /\ phase = "exec"
    /\ IsJnz(ops[10]) /\ ops[10].n = 1
    /\ pc = 2 /\ steps = 10 /\ Rd(mem, 0) = 1

----------------------------------------------------------------------------
\* the case being run has failed for one of the listed reasons
CaseFailed ==
    /\ harness.run = "running"
    /\ \/ phase = "err" /\ err \in {"IntOverflow", "IntUnderflow", "MemOverflow", "MemUnderflow"}
       \/ phase = "panic" /\ err = ZeroMsg
       \/ phase = "ok" /\ output # harness.expect

\* the next case is one the frontend fails on
FrontendFails ==
    /\ harness.run = "idle" /\ harness.todo # <<>>
    /\ ~Head(harness.todo).skip /\ Head(harness.todo).cc # "ok"

\* the harness reports the case as failed and is ready for the next case
ReportsFailure(left) ==
    /\ Len(harness'.reports) = Len(harness.reports) + 1
    /\ harness'.reports[Len(harness'.reports)].verdict = "fail"
    /\ harness'.run = "idle"
    /\ harness'.todo = left
    /\ harness'.stats = harness.stats

(* C33: after a case fails for a listed reason (frontend failure, one of   *)
(* the four interpreter faults, a non-zero final tape, an output mismatch) *)
(* the harness reports that case as failed and stands ready to run the     *)
(* next case; a stats file is written only for a case reported as passed.  *)
C33_FailureReportedRunGoesOn ==
    /\ [][CaseFailed => ReportsFailure(harness.todo)]_vars
    /\ [][FrontendFails => ReportsFailure(Tail(harness.todo))]_vars
    /\ [][harness'.stats # harness.stats =>
             /\ phase = "ok" /\ output = harness.expect
             /\ harness'.reports = Append(harness.reports, Verdict("pass", "pass"))]_vars

----------------------------------------------------------------------------
(* C34: compile returns no op stream for a source that contains ",": it    *)
(* panics ("TODO") while reading the characters, so nothing of the source  *)
(* is executed, whether or not the "," could be reached at run time.       *)
C34_GetcharRejected ==
    (module = NoModule /\ \E i \in 1..Len(src) : src[i] = ",") =>
        /\ phase \in {"bf", "panic"}
        /\ phase = "panic" => err = "TODO"
        /\ ops = <<>> /\ steps = 0 /\ output = <<>>

\* the "," sits in a loop that is never entered
C34_Witness ==
    /\ src = <<"[", ",", "]">>
    /\ phase = "panic" /\ err = "TODO"
    /\ ops = <<>>

----------------------------------------------------------------------------
\* the instructions of a block list, in block order
RECURSIVE InstrsOf(_, _, _)
InstrsOf(bs, lo, hi) == IF lo > hi THEN <<>> ELSE bs[lo].instrs \o InstrsOf(bs, lo + 1, hi)

NamesOf(bs) == {bs[j].name : j \in 1..Len(bs)}

NamesDistinct(bs) == Cardinality(NamesOf(bs)) = Len(bs)

\* out is bs with blocks split as the claim describes: the blocks of bs in
\* their order, each followed by the blocks created from it
SplitAsDescribed(bs, out) ==
    LET top == Max(NamesOf(bs))
        created == {j \in 1..Len(out) : out[j].name > top}
        kept == (1..Len(out)) \ created
        Orig(j) == Cardinality({q \in kept : q <= j})
        GroupEnd(j) == Max({e \in j..Len(out) : \A q \in (j + 1)..e : q \in created})
    IN /\ InstrsOf(out, 1, Len(out)) = InstrsOf(bs, 1, Len(bs))
       /\ NamesDistinct(bs) => NamesDistinct(out)
       /\ Cardinality(kept) = Len(bs)
       /\ 1 \in kept
       /\ \A j \in kept :
             /\ out[j].name = bs[Orig(j)].name
             /\ InstrsOf(out, j, GroupEnd(j)) = bs[Orig(j)].instrs
             /\ out[GroupEnd(j)].term = bs[Orig(j)].term
       /\ \A j \in created :
             /\ out[j].name = top + Cardinality({q \in created : q <= j})
             /\ out[j - 1].term = Br(out[j].name)
             /\ out[j - 1].instrs # <<>>
             /\ IsCall(out[j - 1].instrs[Len(out[j - 1].instrs)])

\* a step that applies calls_terminate_blocks
SplitStep == phase \in {"ir", "split"} /\ phase' \in {"split", "split2"}

(* C35: calls_terminate_blocks keeps, for each function, the concatenation *)
(* of the blocks' instruction lists; the k-th block it creates is named    *)
(* (largest name before) + k, so names stay pairwise distinct; a created   *)
(* block stands directly after the block it was split from, which ends in  *)
(* the Call and a Br to it; the last block split off an original block     *)
(* carries that block's terminator.                                        *)
C35_SplitKeepsInstrsNamesOrder ==
    [][SplitStep =>
          /\ Len(module') = Len(module)
          /\ \A f \in 1..Len(module) :
                /\ module'[f].name = module[f].name
                /\ SplitAsDescribed(module[f].blocks, module'[f].blocks)]_vars

\* block 5 `putchar; alloca; putchar; br 2` split in three
C35_Witness ==
    /\ phase = "split"
    /\ Len(module) = 1 /\ Len(module[1].blocks) = 4
    /\ [j \in 1..4 |-> module[1].blocks[j].name] = <<5, 6, 7, 2>>
    /\ [j \in 1..4 |-> Len(module[1].blocks[j].instrs)] = <<1, 2, 0, 0>>
    /\ [j \in 1..4 |-> module[1].blocks[j].term] = <<Br(6), Br(7), Br(2), Ret>>

----------------------------------------------------------------------------
\* the number of Call instructions in a block list
CallCount(bs) == Len(SelectSeq(InstrsOf(bs, 1, Len(bs)), IsCall))

(* C36: calls_terminate_blocks terminates on every module (its loops run   *)
(* to their end and yield the module's functions, on a module as read and  *)
(* on the pass's own result), and leaves each function with as many blocks *)
(* as it had plus the number of Call instructions in that function.        *)
C36_SplitTerminatesOneBlockPerCall ==
    /\ [](phase \in {"ir", "split"} =>
             \E m \in {calls_terminate_blocks(module)} : Len(m) = Len(module))
    /\ [][SplitStep =>
             \A f \in 1..Len(module) :
                 Len(module'[f].blocks) = Len(module[f].blocks) + CallCount(module[f].blocks)]_vars

\* the pass applied a second time to `putchar; alloca; putchar`, whose
\* two Calls end their blocks by then: two more blocks all the same
C36_Witness ==
    /\ phase = "split2"
    /\ Len(module) = 1 /\ Len(module[1].blocks) = 6
    /\ CallCount(module[1].blocks) = 2
    /\ \E j \in 1..6 : module[1].blocks[j].name = 5

----------------------------------------------------------------------------
(* C38: for a source with none of the eight CTL characters (the empty      *)
(* source included) compile returns the empty op stream, and exec on it    *)
(* returns Ok with empty output and zero steps.                            *)
C38_CommentOnlyRunsEmpty ==
    (module = NoModule /\ prog = NoProg /\ \A i \in 1..Len(src) : src[i] \notin OpChars) =>
        /\ phase \in {"bf", "exec", "ok"}
        /\ ops = <<>> /\ output = <<>> /\ steps = 0

====
